---- MODULE Spec2Model ----
(***************************************************************************)
(* TradingView -> Upstox webhook relay (server.js).                        *)
(*                                                                         *)
(* The model follows the Node.js execution model: a handler runs without   *)
(* interruption from the completion of one outbound call to the start of   *)
(* the next one, so every action below is one such run.  Strings that the  *)
(* code splits are sequences of chunks in which ":" is a chunk of its own. *)
(***************************************************************************)
EXTENDS Integers, Sequences, FiniteSets, TLC

(***************************************************************************)
(* Bounds of the model.                                                    *)
(***************************************************************************)
MaxArrivals == 2        \* webhook requests of a behaviour of Spec
MaxRepeats == 3         \* webhook requests of a behaviour of SpecDedup
MaxTicks == 2           \* short clock steps of a behaviour
MaxLogins == 1          \* OAuth callbacks of a behaviour
MaxRestarts == 1        \* restarts of the process
MaxCronHours == 48      \* hours of a behaviour of SpecCron
MaxPruneTicks == 3      \* short clock steps of a behaviour of SpecPrune
StartTime == 1          \* Date.now() at process start (any positive instant)
TickMs == 30000         \* a short clock step, half the duplicate window

(***************************************************************************)
(* Program constants.                                                      *)
(***************************************************************************)
MAX_CAPITAL_PER_TRADE == 10000
MAX_TOTAL_POSITIONS == 5
MAX_QUANTITY_PER_TRADE == 100
DUPLICATE_SIGNAL_WINDOW == 60000
PRUNE_THRESHOLD == 100
TOKEN_LIFETIME == 82800000      \* 23 * 60 * 60 * 1000
REFRESH_MARGIN == 60000
WEBHOOK_SECRET == "secret"
HourMs == 3600000
DayMs == 86400000
RETENTION_DAYS == 30

\* Date.prototype.toISOString, as the pair that orders like the string
toISOString(t) == [day |-> t \div DayMs, ms |-> t % DayMs]

(***************************************************************************)
(* JavaScript values.  null/undefined/"" are the empty sequence for        *)
(* strings and tokens, 0 for numbers; both are falsy, as in the code.      *)
(***************************************************************************)
Null == << >>
NoBody == [present |-> FALSE, token |-> "", symbol |-> << >>, action |-> "",
           quantity |-> 0, price |-> 0]

Str(s) == <<s>>
Qualified(ex, s) == <<ex, ":", s>>

\* String.prototype.split(sep) over a sequence of chunks
RECURSIVE SplitFrom(_, _, _)
SplitFrom(s, sep, cur) ==
  IF s = << >> THEN <<cur>>
  ELSE IF Head(s) = sep THEN <<cur>> \o SplitFrom(Tail(s), sep, << >>)
  ELSE SplitFrom(Tail(s), sep, Append(cur, Head(s)))

Split(s, sep) == SplitFrom(s, sep, << >>)

\* parts[i] of a JavaScript array (0-based): <<value>> or << >> when undefined
At(parts, i) == IF i + 1 <= Len(parts) THEN <<parts[i + 1]>> ELSE << >>

\* Array.prototype.find: <<first element satisfying Test>> or << >>
RECURSIVE Find(_, _)
Find(arr, tradingSymbol) ==
  IF arr = << >> THEN << >>
  ELSE IF <<Head(arr).trading_symbol>> = tradingSymbol THEN <<Head(arr)>>
  ELSE Find(Tail(arr), tradingSymbol)

\* parseInt of a brokerage quantity, which the API delivers as an integer
ParseInt(q) == q

(***************************************************************************)
(* The brokerage catalog, one list per segment, in catalog order.          *)
(***************************************************************************)
Inst(key, sym, ex) == [instrument_key |-> Str(key), trading_symbol |-> sym, exchange |-> ex]

Segments == <<"NSE", "BSE", "MCX">>

Catalog(segment) ==
  CASE segment = "NSE" -> <<Inst("NSE_EQ|SBIN", Str("SBIN"), "NSE"),
                            Inst("NSE_BE|TCS", Str("TCS"), "NSE"),
                            Inst("NSE_EQ|TCS", Str("TCS"), "NSE")>>
    [] segment = "BSE" -> <<Inst("BSE_EQ|SBIN", Str("SBIN"), "BSE"),
                            Inst("BSE_FO|SILVER", Str("SILVER"), "BSE")>>
    [] OTHER -> <<Inst("MCX_FO|GOLD", Str("GOLD"), "MCX"),
                  Inst("MCX_FO|SILVER", Str("SILVER"), "MCX")>>

\* the local copies instruments/<segment>.json, older than the download
LocalCatalog(segment) ==
  CASE segment = "NSE" -> <<Inst("NSE_EQ|SBIN", Str("SBIN"), "NSE")>>
    [] segment = "BSE" -> <<Inst("BSE_EQ|SBIN", Str("SBIN"), "BSE"),
                            Inst("BSE_FO|SILVER", Str("SILVER"), "BSE")>>
    [] OTHER -> <<Inst("MCX_FO|GOLD_OLD", Str("GOLD"), "MCX")>>

(***************************************************************************)
(* Inputs.                                                                 *)
(***************************************************************************)
Body(tok, sym, act, qty, price) ==
  [present |-> TRUE, token |-> tok, symbol |-> sym, action |-> act,
   quantity |-> qty, price |-> price]

SignalSymbols == {Qualified("NSE", "SBIN"), Str("SBIN"), Qualified("NSE", "TCS")}
SignalSizes == {<<1, 0>>, <<1, 200>>, <<60, 200>>, <<101, 200>>}

Bodies ==
  {NoBody}
  \cup {Body(t, Qualified("NSE", "SBIN"), "BUY", 1, 0) : t \in {"", "wrong"}}
  \cup {Body(WEBHOOK_SECRET, << >>, "BUY", 1, 0),
        Body(WEBHOOK_SECRET, Qualified("NSE", "SBIN"), "", 1, 0),
        Body(WEBHOOK_SECRET, Qualified("NSE", "SBIN"), "BUY", 0, 0),
        Body(WEBHOOK_SECRET, Qualified("NSE", "NOPE"), "BUY", 1, 0)}
  \cup {Body(WEBHOOK_SECRET, sym, act, sz[1], sz[2]) :
          sym \in SignalSymbols, act \in {"BUY", "SELL"}, sz \in SignalSizes}

Pos(sym, qty) == [trading_symbol |-> Str(sym), quantity |-> qty]

Others(n) == [i \in 1..n |-> Pos(<<"H1", "H2", "H3", "H4", "H5">>[i], 5)]

Portfolios ==
  {<< >>, <<Pos("SBIN", 10)>>, <<Pos("SBIN", -10)>>,
   Others(MAX_TOTAL_POSITIONS - 1), Others(MAX_TOTAL_POSITIONS),
   Others(MAX_TOTAL_POSITIONS) \o <<Pos("SBIN", 0)>>,
   Others(MAX_TOTAL_POSITIONS) \o <<Pos("SBIN", 10)>>}

Margins == {100, 20000}

(***************************************************************************)
(* State.                                                                  *)
(***************************************************************************)
VARIABLES
  now,                    \* Date.now()
  upstoxAccessToken,      \* in-memory credential
  upstoxRefreshToken,
  tokenExpiryTime,
  recentSignals,          \* Map key -> time of the last signal let through
  symbolToInstrumentMap,  \* trading symbol -> instrument
  boot,                   \* position of the app.listen callback
  restarts,               \* number of times the process has been restarted
  syncLog,                \* what syncInstruments met and merged, per segment
  loaded,                 \* what loadTokensFromDB returned: "" before it has,
                          \* "true", "false", or "error" for the false of its catch
  req,                    \* the webhook handler activations
  arrivals,               \* number of webhook requests received so far
  history,                \* the signals that reached the duplicate check
  login,                  \* the /auth/callback activation
  logins,                 \* number of OAuth callbacks received so far
  authTokens,             \* rows of the auth_tokens table
  brokerPositions,        \* the brokerage's short-term positions
  issued,                 \* credential pairs the brokerage has issued
  orderCount,             \* orders the brokerage has accepted
  cron,                   \* the scheduled jobs of scheduleCronJobs
  tradingviewLogs         \* rows of tradingview_logs written before process start
                          \* (a request's own inserts are its logRows: within
                          \* the hours of a behaviour no cleanup cutoff reaches them)

vars == <<now, upstoxAccessToken, upstoxRefreshToken, tokenExpiryTime,
          recentSignals, symbolToInstrumentMap, boot, restarts, syncLog, loaded, req,
          arrivals, history, login, logins, authTokens, brokerPositions, issued,
          orderCount, cron, tradingviewLogs>>

AccessTok(n) == <<"access", n>>
RefreshTok(n) == <<"refresh", n>>

Reason(text, a, b) == [text |-> text, a |-> a, b |-> b]
NoFunds == [isNull |-> TRUE, available_margin |-> 0]
Funds(m) == [isNull |-> FALSE, available_margin |-> m]
NoSave == [accessToken |-> Null, refreshToken |-> Null, updated_at |-> 0]

\* the error of a rejected axios call: the brokerage's message, "" when the
\* call got no response, and the message of the Error object
NoError == [response |-> "", message |-> ""]
OrderErrors ==
  {[response |-> "Insufficient funds", message |-> "Request failed with status code 400"],
   [response |-> "", message |-> "Network Error"]}

\* a call the activation made has failed
FailedCall(s, call) == [s EXCEPT !.failedCalls = @ \cup {call}]

IdleSlot ==
  [pc |-> "idle", data |-> NoBody, seq |-> 0, at |-> 0, events |-> << >>,
   responses |-> << >>, dup |-> FALSE, instrumentToken |-> Null,
   positions |-> << >>, funds |-> NoFunds, outcomes |-> << >>,
   placed |-> << >>, accepted |-> 0, logRows |-> << >>, save |-> NoSave,
   ensured |-> << >>, refreshResult |-> "", failedCalls |-> {},
   orderError |-> NoError]

Emit(s, e) == [s EXCEPT !.events = Append(@, e)]

\* res.status(code).json(...)
Respond(s, code, status, reason) ==
  [Emit(s, "response") EXCEPT
     !.responses = Append(@, [code |-> code, status |-> status, reason |-> reason])]

\* logWebhookOrder up to its insert call (server.js 497-513).  Building the
\* row reads data.symbol, which throws inside the try when data is undefined:
\* the catch at 518 swallows it and nothing is inserted.
logWebhookOrder(s, data, status, reason, orderId) ==
  IF ~data.present
    THEN [s EXCEPT !.pc = "done"]
    ELSE [Emit(s, "log") EXCEPT
            !.pc = "log",
            !.outcomes = Append(@,
               [symbol |-> data.symbol, action |-> data.action,
                quantity |-> data.quantity, price |-> data.price,
                status |-> status, reason |-> reason, order_id |-> orderId,
                created_at |-> toISOString(now)])]

\* an error message that never looks at the brokerage's answer
ErrorMessage_TransportOnly(error) == error.message

\* error.response?.data?.errors?.[0]?.message || error.message (server.js 649)
ErrorMessage(error) ==
  IF error.response # "" THEN error.response ELSE error.message

\* the catch block of the webhook handler (server.js 647-651)
CatchError(s, error) ==
  logWebhookOrder(s, s.data, "failed", Reason(ErrorMessage(error), 0, 0), 0)

(***************************************************************************)
(* The asynchronous suffix of the webhook handler, last step first.  Each  *)
(* operator maps the activation record to the record at the next await.    *)
(***************************************************************************)

\* a limit order at the signal's price
OrderRequest_Limit(s) ==
  [quantity |-> s.data.quantity, product |-> "I", validity |-> "DAY",
   price |-> s.data.price, tag |-> "tv-order", instrument_token |-> s.instrumentToken,
   order_type |-> "LIMIT", transaction_type |-> s.data.action,
   disclosed_quantity |-> 0, trigger_price |-> 0, is_amo |-> FALSE,
   authorization |-> upstoxAccessToken]

\* the order request (server.js 622-643)
OrderRequest(s) ==
  [quantity |-> s.data.quantity, product |-> "I", validity |-> "DAY",
   price |-> 0, tag |-> "tv-order", instrument_token |-> s.instrumentToken,
   order_type |-> "MARKET", transaction_type |-> s.data.action,
   disclosed_quantity |-> 0, trigger_price |-> 0, is_amo |-> FALSE,
   authorization |-> upstoxAccessToken]

PlaceOrder(s) ==
  [Emit(s, "order") EXCEPT !.pc = "order", !.placed = Append(@, OrderRequest(s))]

\* a capital ceiling taken per share
CapitalExceeded_PerShare(requiredCapital) ==
  requiredCapital > MAX_CAPITAL_PER_TRADE * MAX_QUANTITY_PER_TRADE

\* requiredCapital > MAX_CAPITAL_PER_TRADE (server.js 610)
CapitalExceeded(requiredCapital) == requiredCapital > MAX_CAPITAL_PER_TRADE

\* a margin comparison with its operands swapped
MarginInsufficient_Swapped(requiredCapital, availableMargin) ==
  availableMargin > requiredCapital

\* requiredCapital > availableMargin (server.js 615)
MarginInsufficient(requiredCapital, availableMargin) ==
  requiredCapital > availableMargin

\* the two capital checks in the other order
CapitalChecks_MarginFirst(s, requiredCapital, availableMargin) ==
  LET s1 == Emit(s, "check_margin")
      s2 == Emit(s1, "check_capital")
  IN IF MarginInsufficient(requiredCapital, availableMargin)
       THEN logWebhookOrder(s1, s.data, "skipped",
              Reason("insufficient margin", requiredCapital, availableMargin), 0)
     ELSE IF CapitalExceeded(requiredCapital)
       THEN logWebhookOrder(s2, s.data, "skipped",
              Reason("required capital exceeds max limit",
                     requiredCapital, MAX_CAPITAL_PER_TRADE), 0)
     ELSE PlaceOrder(s2)

\* the two capital checks under "if (price > 0)" (server.js 609-619)
CapitalChecks(s, requiredCapital, availableMargin) ==
  LET s1 == Emit(s, "check_capital")
      s2 == Emit(s1, "check_margin")
  IN IF CapitalExceeded(requiredCapital)
       THEN logWebhookOrder(s1, s.data, "skipped",
              Reason("required capital exceeds max limit",
                     requiredCapital, MAX_CAPITAL_PER_TRADE), 0)
     ELSE IF MarginInsufficient(requiredCapital, availableMargin)
       THEN logWebhookOrder(s2, s.data, "skipped",
              Reason("insufficient margin", requiredCapital, availableMargin), 0)
     ELSE PlaceOrder(s2)

\* capital checks that price an unpriced signal at 200
AfterFunds_DefaultPrice(s, funds) ==
  LET s1 == [s EXCEPT !.funds = funds]
      price == IF s.data.price > 0 THEN s.data.price ELSE 200
  IN IF funds.isNull
       THEN logWebhookOrder(s1, s.data, "failed",
              Reason("could not verify funds", 0, 0), 0)
     ELSE CapitalChecks(s1, price * s.data.quantity, funds.available_margin)

\* from the return of getFunds to the order request (server.js 596-643)
AfterFunds(s, funds) ==
  LET s1 == [s EXCEPT !.funds = funds]
      price == s.data.price          \* data.price || 0
  IN IF funds.isNull
       THEN logWebhookOrder(s1, s.data, "failed",
              Reason("could not verify funds", 0, 0), 0)
     ELSE IF price > 0
       THEN CapitalChecks(s1, price * s.data.quantity, funds.available_margin)
     ELSE PlaceOrder(s1)

\* data.symbol.split(":")[1] (server.js 564)
TradingSymbolOf(symbol) == At(Split(symbol, ":"), 1)

\* a directional check that never fires for a BUY
LongConflict_Never(action, existingPosition) == FALSE

\* the BUY/SELL branches of the position check (server.js 567-579)
LongConflict(action, existingPosition) ==
  /\ action = "BUY"
  /\ existingPosition # << >>
  /\ ParseInt(existingPosition[1].quantity) > 0

ShortConflict(action, existingPosition) ==
  /\ action = "SELL"
  /\ existingPosition # << >>
  /\ ParseInt(existingPosition[1].quantity) < 0

\* positions.filter(p => parseInt(p.quantity) !== 0) (server.js 582)
ActivePositions(positions) ==
  SelectSeq(positions, LAMBDA p : ParseInt(p.quantity) # 0)

\* a position-count check that never fires
PositionLimitReached_Never(positions, existingPosition) == FALSE

\* activePositions.length >= MAX_TOTAL_POSITIONS && !existingPosition (583)
PositionLimitReached(positions, existingPosition) ==
  /\ Len(ActivePositions(positions)) >= MAX_TOTAL_POSITIONS
  /\ existingPosition = << >>

\* a quantity compared with the capital ceiling
QuantityExceeded_WrongLimit(quantity) == quantity > MAX_CAPITAL_PER_TRADE

\* data.quantity > MAX_QUANTITY_PER_TRADE (server.js 589)
QuantityExceeded(quantity) == quantity > MAX_QUANTITY_PER_TRADE

\* from the return of getPositions to the funds request (server.js 563-596)
AfterPositions(s, positions) ==
  LET s1 == Emit([s EXCEPT !.positions = positions], "check_direction")
      s2 == Emit(s1, "check_count")
      s3 == Emit(s2, "check_quantity")
      tradingSymbol == TradingSymbolOf(s.data.symbol)
      existingPosition == Find(positions, tradingSymbol)
  IN IF LongConflict(s.data.action, existingPosition)
       THEN logWebhookOrder(s1, s.data, "skipped",
              Reason("already have long position", 0, 0), 0)
     ELSE IF ShortConflict(s.data.action, existingPosition)
       THEN logWebhookOrder(s1, s.data, "skipped",
              Reason("already have short position", 0, 0), 0)
     ELSE IF PositionLimitReached(positions, existingPosition)
       THEN logWebhookOrder(s2, s.data, "skipped",
              Reason("max total positions reached", MAX_TOTAL_POSITIONS, 0), 0)
     ELSE IF QuantityExceeded(s.data.quantity)
       THEN logWebhookOrder(s3, s.data, "skipped",
              Reason("quantity exceeds max limit", s.data.quantity,
                     MAX_QUANTITY_PER_TRADE), 0)
     ELSE [Emit(s3, "funds") EXCEPT !.pc = "funds"]

\* a lookup that never strips the exchange prefix
getInstrumentToken_FirstPart(symbol) ==
  LET parts == Split(symbol, ":")
      tradingSymbol == parts[1]
  IN IF tradingSymbol \in DOMAIN symbolToInstrumentMap
       THEN symbolToInstrumentMap[tradingSymbol].instrument_key
       ELSE Null

\* getInstrumentToken (server.js 207-220): the instrument key or Null
getInstrumentToken(symbol) ==
  LET parts == Split(symbol, ":")
      tradingSymbol == IF Len(parts) > 1 THEN parts[2] ELSE parts[1]
  IN IF tradingSymbol \in DOMAIN symbolToInstrumentMap
       THEN symbolToInstrumentMap[tradingSymbol].instrument_key
       ELSE Null

\* a handler that goes on to the positions whatever the lookup returned
AfterToken_IgnoresNotFound(s) ==
  LET instrumentToken == getInstrumentToken(s.data.symbol)
      s1 == [Emit(s, "lookup") EXCEPT !.instrumentToken = instrumentToken,
                                      !.ensured = <<TRUE>>]
  IN [Emit(s1, "positions") EXCEPT !.pc = "positions"]

\* a lookup failure that ends the handler without a log entry
AfterToken_SilentNotFound(s) ==
  LET instrumentToken == getInstrumentToken(s.data.symbol)
      s1 == [Emit(s, "lookup") EXCEPT !.instrumentToken = instrumentToken,
                                      !.ensured = <<TRUE>>]
  IN IF instrumentToken = Null
       THEN [s1 EXCEPT !.pc = "done"]
       ELSE [Emit(s1, "positions") EXCEPT !.pc = "positions"]

\* from a true result of ensureValidAccessToken to the positions request
\* (server.js 556-563)
AfterToken(s) ==
  LET instrumentToken == getInstrumentToken(s.data.symbol)
      s1 == [Emit(s, "lookup") EXCEPT !.instrumentToken = instrumentToken,
                                      !.ensured = <<TRUE>>]
  IN IF instrumentToken = Null
       THEN logWebhookOrder(s1, s.data, "failed",
              Reason("instrument token not found", 0, 0), 0)
       ELSE [Emit(s1, "positions") EXCEPT !.pc = "positions"]

\* a handler that goes on after a false result
NoValidToken_Continues(s) == AfterToken(s)

\* a false result of ensureValidAccessToken (server.js 550-554)
NoValidToken(s) ==
  logWebhookOrder([s EXCEPT !.ensured = <<FALSE>>], s.data, "failed",
                  Reason("no valid access token", 0, 0), 0)

\* a catch block that tries the refresh a second time
RefreshFailed_RetriesOnce(s) ==
  IF "refresh" \in s.failedCalls THEN NoValidToken(s)
  ELSE [Emit(FailedCall(s, "refresh"), "refresh") EXCEPT !.pc = "refresh"]

\* the catch block of ensureValidAccessToken (server.js 313-319)
RefreshFailed(s) == NoValidToken(FailedCall(s, "refresh"))

\* Date.now() >= tokenExpiryTime - 60000 (server.js 286)
IsStale(t, expiry) == t >= expiry - REFRESH_MARGIN

\* ensureValidAccessToken up to its first await (server.js 283-303), then
\* the handler's reaction to an immediate result
EnsureValid(s) ==
  LET s1 == Emit(s, "token_check")
  IN IF upstoxAccessToken = Null THEN NoValidToken(s1)
     ELSE IF IsStale(now, tokenExpiryTime)
       THEN [Emit(s1, "refresh") EXCEPT !.pc = "refresh"]
     ELSE AfterToken(s1)

(***************************************************************************)
(* The synchronous prefix of the webhook handler.                          *)
(***************************************************************************)

\* `${symbol}-${action}` (server.js 262)
SignalKey(symbol, action) == symbol \o <<"-", action>>

MapGet(m, k) == IF k \in DOMAIN m THEN m[k] ELSE 0
MapSet(m, k, v) == [x \in DOMAIN m \cup {k} |-> IF x = k THEN v ELSE m[x]]

\* a window compared in seconds against a difference in milliseconds
WithinWindow_Seconds(lastTime, t) ==
  lastTime # 0 /\ (t - lastTime) < DUPLICATE_SIGNAL_WINDOW \div 1000

\* lastTime && (now - lastTime) < DUPLICATE_SIGNAL_WINDOW (server.js 266)
WithinWindow(lastTime, t) ==
  lastTime # 0 /\ (t - lastTime) < DUPLICATE_SIGNAL_WINDOW

\* a clean-up that drops entries from half the window on
Pruned_HalfWindow(m, t) ==
  IF Cardinality(DOMAIN m) > PRUNE_THRESHOLD
    THEN [k \in {x \in DOMAIN m : ~(t - m[x] >= DUPLICATE_SIGNAL_WINDOW \div 2)} |-> m[k]]
    ELSE m

\* the clean-up loop (server.js 272-276)
Pruned(m, t) ==
  IF Cardinality(DOMAIN m) > PRUNE_THRESHOLD
    THEN [k \in {x \in DOMAIN m : ~(t - m[x] > DUPLICATE_SIGNAL_WINDOW)} |-> m[k]]
    ELSE m

\* a duplicate check that never records the signal it lets through
isDuplicateSignal_Forgets(m, symbol, action, t) ==
  LET key == SignalKey(symbol, action)
  IN [result |-> WithinWindow(MapGet(m, key), t), map |-> m]

\* a duplicate check that stamps the pair also when it suppresses
isDuplicateSignal_Restamps(m, symbol, action, t) ==
  LET key == SignalKey(symbol, action)
  IN IF WithinWindow(MapGet(m, key), t)
       THEN [result |-> TRUE, map |-> MapSet(m, key, t)]
       ELSE [result |-> FALSE, map |-> Pruned(MapSet(m, key, t), t)]

\* isDuplicateSignal (server.js 261-278): the result and the map afterwards
isDuplicateSignal(m, symbol, action, t) ==
  LET key == SignalKey(symbol, action)
  IN IF WithinWindow(MapGet(m, key), t)
       THEN [result |-> TRUE, map |-> m]
       ELSE [result |-> FALSE, map |-> Pruned(MapSet(m, key, t), t)]

\* a token check that forgets the missing token
Unauthorized_MissingPasses(data) == data.token # "" /\ data.token # WEBHOOK_SECRET

\* !data.token || data.token !== process.env.WEBHOOK_SECRET (server.js 530)
Unauthorized(data) == data.token = "" \/ data.token # WEBHOOK_SECRET

\* a payload check that lets a payload without symbol through
InvalidPayload_SymbolOptional(data) == data.action = "" \/ data.quantity = 0

\* !data.symbol || !data.action || !data.quantity (server.js 534)
InvalidPayload(data) ==
  data.symbol = << >> \/ data.action = "" \/ data.quantity = 0

\* a handler that answers once the pipeline has come to its first await
Received_Late(s) == Respond(EnsureValid(s), 200, "received", "")

\* the handler once the duplicate check has let the signal through
\* (server.js 547-550)
Received(s) == EnsureValid(Respond(s, 200, "received", ""))

TypeError == [response |-> "", message |-> "Cannot read properties of undefined"]

\* the handler from its entry to its first await (server.js 526-550);
\* dup is the result of isDuplicateSignal when the handler gets that far
Webhook(s, dup) ==
  IF ~s.data.present
    THEN CatchError(s, TypeError)   \* data.token of undefined throws
  ELSE IF Unauthorized(s.data)
    THEN [Respond(s, 401, "", "Unauthorized") EXCEPT !.pc = "done"]
  ELSE IF InvalidPayload(s.data)
    THEN [Respond(s, 400, "", "Invalid payload") EXCEPT !.pc = "done"]
  ELSE IF dup
    THEN logWebhookOrder([s EXCEPT !.dup = TRUE], s.data, "skipped",
           Reason("duplicate signal", 0, 0), 0)
  ELSE Received(s)

ReachesDuplicateCheck(data) ==
  data.present /\ ~Unauthorized(data) /\ ~InvalidPayload(data)

(***************************************************************************)
(* Actions of the webhook handler.                                         *)
(***************************************************************************)
Reqs == DOMAIN req

\* a server that takes a request only when no other is being handled
Free_Serialized(r) == \A q \in Reqs : req[q].pc \in {"idle", "done"}

Free(r) == req[r].pc \in {"idle", "done"}

\* app.post("/webhook/tradingview") receives a request (server.js 526-550)
Arrive(r, body) ==
  /\ Free(r)
  /\ \A q \in Reqs : q < r => ~Free(q)
  /\ LET s0 == [IdleSlot EXCEPT !.data = body, !.seq = arrivals + 1, !.at = now]
         d == isDuplicateSignal(recentSignals, body.symbol, body.action, now)
     IN /\ req' = [req EXCEPT ![r] = Webhook(s0, d.result)]
        /\ recentSignals' = IF ReachesDuplicateCheck(body) THEN d.map
                            ELSE recentSignals
  /\ arrivals' = arrivals + 1
  /\ history' = IF ReachesDuplicateCheck(body)
                  THEN Append(history, [seq |-> arrivals + 1, symbol |-> body.symbol,
                                        action |-> body.action, at |-> now,
                                        duplicate |-> req'[r].dup])
                  ELSE history
  /\ UNCHANGED <<now, upstoxAccessToken, upstoxRefreshToken, tokenExpiryTime,
                 symbolToInstrumentMap, boot, restarts, syncLog, loaded, login, logins, authTokens,
                 brokerPositions, issued, orderCount, cron, tradingviewLogs>>

\* time passes
Tick(d) ==
  /\ now' = now + d
  /\ UNCHANGED <<upstoxAccessToken, upstoxRefreshToken, tokenExpiryTime,
                 recentSignals, symbolToInstrumentMap, boot, restarts, syncLog, loaded, req, arrivals, history,
                 login, logins, authTokens, brokerPositions, issued, orderCount, cron, tradingviewLogs>>

\* saveTokensToDB up to its delete call (server.js 37-45)
SaveStart(s, accessToken, refreshToken) ==
  [Emit(s, "save") EXCEPT
     !.pc = "save_delete",
     !.save = [accessToken |-> accessToken, refreshToken |-> refreshToken,
               updated_at |-> 0]]

\* .delete().neq("access_token", "dummy") (server.js 42-45)
DeleteTokens(rows) == SelectSeq(rows, LAMBDA row : row.access_token = <<"dummy">>)

\* an insert that writes the two tokens into each other's column
InsertTokens_Swapped(rows, save) ==
  Append(rows, [access_token |-> save.refreshToken,
                refresh_token |-> save.accessToken,
                updated_at |-> save.updated_at])

\* .insert([{access_token, refresh_token, updated_at}]) (server.js 53-61)
InsertTokens(rows, save) ==
  Append(rows, [access_token |-> save.accessToken,
                refresh_token |-> save.refreshToken,
                updated_at |-> save.updated_at])

\* what the token endpoint can answer: a new pair, a 2xx body without
\* access_token, or an error
TokenResults == {"tokens", "no_access_token", "error"}

\* the refresh call of ensureValidAccessToken returns (server.js 290-320).
\* The body is not inspected: a 2xx answer without access_token stores
\* undefined for both tokens (server.js 305-307) and goes on to save them.
RefreshDone(r, result) ==
  /\ req[r].pc = "refresh"
  /\ IF result = "tokens"
       THEN /\ upstoxAccessToken' = AccessTok(issued + 1)
            /\ upstoxRefreshToken' = RefreshTok(issued + 1)
            /\ tokenExpiryTime' = now + TOKEN_LIFETIME
            /\ issued' = issued + 1
            /\ req' = [req EXCEPT ![r] =
                 SaveStart([@ EXCEPT !.refreshResult = result],
                           AccessTok(issued + 1), RefreshTok(issued + 1))]
     ELSE IF result = "no_access_token"
       THEN /\ upstoxAccessToken' = Null
            /\ upstoxRefreshToken' = Null
            /\ tokenExpiryTime' = now + TOKEN_LIFETIME
            /\ req' = [req EXCEPT ![r] =
                 SaveStart([@ EXCEPT !.refreshResult = result], Null, Null)]
            /\ UNCHANGED issued
       ELSE /\ req' = [req EXCEPT ![r] =
                 RefreshFailed([@ EXCEPT !.refreshResult = result])]
            /\ UNCHANGED <<upstoxAccessToken, upstoxRefreshToken,
                           tokenExpiryTime, issued>>
  /\ UNCHANGED <<now, recentSignals, symbolToInstrumentMap, boot, restarts, syncLog, loaded, arrivals, history,
                 login, logins, authTokens, brokerPositions, orderCount, cron, tradingviewLogs>>

\* the delete of saveTokensToDB returns (server.js 42-53, 69-71)
SaveDeleteDone(r, ok) ==
  /\ req[r].pc = "save_delete"
  /\ IF ok
       THEN /\ authTokens' = DeleteTokens(authTokens)
            /\ req' = [req EXCEPT ![r].pc = "save_insert",
                                   ![r].save.updated_at = now]
       ELSE /\ req' = [req EXCEPT ![r] = AfterToken(FailedCall(@, "save"))]
            /\ UNCHANGED authTokens
  /\ UNCHANGED <<now, upstoxAccessToken, upstoxRefreshToken, tokenExpiryTime,
                 recentSignals, symbolToInstrumentMap, boot, restarts, syncLog, loaded, arrivals, history, login,
                 logins, brokerPositions, issued, orderCount, cron, tradingviewLogs>>

\* the insert of saveTokensToDB returns (server.js 53-72), then 322, 556
SaveInsertDone(r, ok) ==
  /\ req[r].pc = "save_insert"
  /\ authTokens' = IF ok THEN InsertTokens(authTokens, req[r].save)
                   ELSE authTokens
  /\ req' = [req EXCEPT ![r] =
       AfterToken(IF ok THEN @ ELSE FailedCall(@, "save"))]
  /\ UNCHANGED <<now, upstoxAccessToken, upstoxRefreshToken, tokenExpiryTime,
                 recentSignals, symbolToInstrumentMap, boot, restarts, syncLog, loaded, arrivals, history, login,
                 logins, brokerPositions, issued, orderCount, cron, tradingviewLogs>>

\* getPositions returns (server.js 225-238): the positions, or [] on error
PositionsDone(r, ok) ==
  /\ req[r].pc = "positions"
  /\ req' = [req EXCEPT ![r] =
       IF ok THEN AfterPositions(@, brokerPositions)
       ELSE AfterPositions(FailedCall(@, "positions"), << >>)]
  /\ UNCHANGED <<now, upstoxAccessToken, upstoxRefreshToken, tokenExpiryTime,
                 recentSignals, symbolToInstrumentMap, boot, restarts, syncLog, loaded, arrivals, history, login,
                 logins, authTokens, brokerPositions, issued, orderCount, cron, tradingviewLogs>>

\* getFunds returns (server.js 243-256): the funds, or null on error
FundsDone(r, funds) ==
  /\ req[r].pc = "funds"
  /\ req' = [req EXCEPT ![r] =
       AfterFunds(IF funds.isNull THEN FailedCall(@, "funds") ELSE @, funds)]
  /\ UNCHANGED <<now, upstoxAccessToken, upstoxRefreshToken, tokenExpiryTime,
                 recentSignals, symbolToInstrumentMap, boot, restarts, syncLog, loaded, arrivals, history, login,
                 logins, authTokens, brokerPositions, issued, orderCount, cron, tradingviewLogs>>

\* the brokerage books an accepted order into its positions
SymbolOfKey(key) ==
  LET all == Catalog("NSE") \o Catalog("BSE") \o Catalog("MCX")
      hit == SelectSeq(all, LAMBDA inst : inst.instrument_key = key)
  IN hit[1].trading_symbol

Booked(positions, order) ==
  LET sym == SymbolOfKey(order.instrument_token)
      delta == IF order.transaction_type = "BUY" THEN order.quantity
               ELSE 0 - order.quantity
      held == \E i \in 1..Len(positions) : positions[i].trading_symbol = sym
  IN IF held
       THEN [i \in 1..Len(positions) |->
               IF positions[i].trading_symbol = sym
                 THEN [positions[i] EXCEPT !.quantity = @ + delta]
                 ELSE positions[i]]
       ELSE Append(positions, [trading_symbol |-> sym, quantity |-> delta])

\* the order call returns (server.js 622-651)
OrderDone(r, ok, error) ==
  /\ req[r].pc = "order"
  /\ IF ok
       THEN /\ brokerPositions' = Booked(brokerPositions, req[r].placed[Len(req[r].placed)])
            /\ orderCount' = orderCount + 1
            /\ req' = [req EXCEPT ![r] =
                 logWebhookOrder([@ EXCEPT !.accepted = @ + 1], @.data, "success",
                                 Reason("", 0, 0), orderCount + 1)]
       ELSE /\ req' = [req EXCEPT ![r] =
                 CatchError([FailedCall(@, "order") EXCEPT !.orderError = error], error)]
            /\ UNCHANGED <<brokerPositions, orderCount>>
  /\ UNCHANGED <<now, upstoxAccessToken, upstoxRefreshToken, tokenExpiryTime,
                 recentSignals, symbolToInstrumentMap, boot, restarts, syncLog, loaded, arrivals, history, login,
                 logins, authTokens, issued, cron, tradingviewLogs>>

\* what the handler can be thrown when the brokerage has taken the order:
\* the answer carries no data object, so that reading data.data.order_id
\* throws (server.js 646), or the answer never arrives and the call rejects
UnreadAnswers ==
  {TypeError, [response |-> "", message |-> "socket hang up"]}

\* the brokerage accepts the order, but the handler cannot read the answer:
\* the throw lands in the catch (server.js 622-651)
OrderAnswerUnread(r, error) ==
  /\ req[r].pc = "order"
  /\ brokerPositions' = Booked(brokerPositions, req[r].placed[Len(req[r].placed)])
  /\ orderCount' = orderCount + 1
  /\ req' = [req EXCEPT ![r] =
       CatchError([@ EXCEPT !.accepted = @ + 1, !.orderError = error], error)]
  /\ UNCHANGED <<now, upstoxAccessToken, upstoxRefreshToken, tokenExpiryTime,
                 recentSignals, symbolToInstrumentMap, boot, restarts, syncLog, loaded, arrivals, history, login,
                 logins, authTokens, issued, cron, tradingviewLogs>>

\* the insert of logWebhookOrder returns (server.js 499-521); on the
\* duplicate path the handler then answers (server.js 544)
LogDone(r, ok) ==
  /\ req[r].pc = "log"
  /\ LET s == req[r]
         s1 == IF ok THEN [s EXCEPT !.logRows = Append(@, s.outcomes[Len(s.outcomes)])]
               ELSE FailedCall(s, "log")
         s2 == IF s.dup THEN Respond(s1, 200, "skipped", "duplicate signal") ELSE s1
     IN req' = [req EXCEPT ![r] = [s2 EXCEPT !.pc = "done"]]
  /\ UNCHANGED <<now, upstoxAccessToken, upstoxRefreshToken, tokenExpiryTime,
                 recentSignals, symbolToInstrumentMap, boot, restarts, syncLog, loaded, arrivals, history, login,
                 logins, authTokens, brokerPositions, issued, orderCount, cron, tradingviewLogs>>

(***************************************************************************)
(* Start-up: the app.listen callback (server.js 768-773).                  *)
(***************************************************************************)

\* a merge in which every entry replaces the one before it
RECURSIVE MergeInstruments_LastWins(_, _)
MergeInstruments_LastWins(map, instruments) ==
  IF instruments = << >> THEN map
  ELSE LET inst == Head(instruments)
           symbol == inst.trading_symbol
       IN MergeInstruments_LastWins(
            IF symbol # << >> THEN MapSet(map, symbol, inst) ELSE map,
            Tail(instruments))

\* the forEach of syncInstruments over one list (server.js 156-168, 181-190)
RECURSIVE MergeInstruments(_, _)
MergeInstruments(map, instruments) ==
  IF instruments = << >> THEN map
  ELSE LET inst == Head(instruments)
           symbol == inst.trading_symbol
           put == symbol # << >> /\ (symbol \notin DOMAIN map \/ inst.exchange = "NSE")
       IN MergeInstruments(IF put THEN MapSet(map, symbol, inst) ELSE map,
                           Tail(instruments))

\* what a fallback can find: no local file, one that does not parse, a copy
LocalFiles == {"absent", "bad", "ok"}

\* a fallback that is taken although the download succeeded
Fetched_LocalFirst(segment, remote, local) ==
  IF local = "ok" THEN LocalCatalog(segment)
  ELSE IF remote THEN Catalog(segment)
  ELSE << >>

\* the list that one turn of the segment loop iterates over: the download
\* (server.js 130-154), else the local file when it exists and parses
\* (176-180), else nothing (191-193)
Fetched(segment, remote, local) ==
  IF remote THEN Catalog(segment)
  ELSE IF local = "ok" THEN LocalCatalog(segment)
  ELSE << >>

\* one turn of the segment loop of syncInstruments (server.js 127-197)
SyncSegment(i, remote, local) ==
  /\ boot = i
  /\ LET instruments == Fetched(Segments[i], remote, local)
     IN /\ symbolToInstrumentMap' = MergeInstruments(symbolToInstrumentMap, instruments)
        /\ syncLog' = Append(syncLog, [segment |-> Segments[i], remote |-> remote,
                                       local |-> local, instruments |-> instruments])
  /\ boot' = i + 1
  /\ UNCHANGED <<now, upstoxAccessToken, upstoxRefreshToken, tokenExpiryTime,
                 recentSignals, restarts, loaded, req, arrivals, history, login,
                 logins, authTokens, brokerPositions, issued, orderCount, cron, tradingviewLogs>>

\* .order("updated_at", {ascending: false}).limit(1) (server.js 78-82)
Latest(rows) ==
  IF rows = << >> THEN << >>
  ELSE LET i == CHOOSE i \in 1..Len(rows) :
                  \A j \in 1..Len(rows) : rows[j].updated_at <= rows[i].updated_at
       IN <<rows[i]>>

\* loadTokensFromDB (server.js 75-103), then scheduleCronJobs
LoadTokens(ok) ==
  /\ boot = Len(Segments) + 1
  /\ boot' = boot + 1
  /\ IF ok /\ Latest(authTokens) # << >>
       THEN /\ upstoxAccessToken' = Latest(authTokens)[1].access_token
            /\ upstoxRefreshToken' = Latest(authTokens)[1].refresh_token
            /\ tokenExpiryTime' = now + TOKEN_LIFETIME
            /\ loaded' = "true"
       ELSE /\ loaded' = IF ok THEN "false" ELSE "error"
            /\ UNCHANGED <<upstoxAccessToken, upstoxRefreshToken, tokenExpiryTime>>
  /\ UNCHANGED <<now, recentSignals, symbolToInstrumentMap, restarts, syncLog, req, arrivals,
                 history, login, logins, authTokens, brokerPositions, issued,
                 orderCount, cron, tradingviewLogs>>

(***************************************************************************)
(* OAuth callback (server.js 672-724).                                     *)
(***************************************************************************)
IdleLogin ==
  [pc |-> "idle", responses |-> << >>, save |-> NoSave, saved |-> FALSE,
   code |-> FALSE, result |-> ""]

\* the callback up to the token exchange call (server.js 672-701)
LoginArrive(hasCode) ==
  /\ logins < MaxLogins
  /\ login.pc \in {"idle", "done"}
  /\ logins' = logins + 1
  /\ login' = IF hasCode THEN [IdleLogin EXCEPT !.pc = "exchange", !.code = TRUE]
              ELSE [IdleLogin EXCEPT !.pc = "done", !.responses = <<400>>]
  /\ UNCHANGED <<now, upstoxAccessToken, upstoxRefreshToken, tokenExpiryTime,
                 recentSignals, symbolToInstrumentMap, boot, restarts, syncLog, loaded, req, arrivals, history,
                 authTokens, brokerPositions, issued, orderCount, cron, tradingviewLogs>>

\* a callback that stores whatever a 2xx answer carries, as the refresh does
LoginExchangeDone_Unchecked(result) ==
  /\ login.pc = "exchange"
  /\ IF result = "tokens"
       THEN /\ upstoxAccessToken' = AccessTok(issued + 1)
            /\ upstoxRefreshToken' = RefreshTok(issued + 1)
            /\ tokenExpiryTime' = now + TOKEN_LIFETIME
            /\ issued' = issued + 1
            /\ login' = [login EXCEPT !.pc = "save_delete", !.result = result,
                           !.save = [accessToken |-> AccessTok(issued + 1),
                                     refreshToken |-> RefreshTok(issued + 1),
                                     updated_at |-> 0]]
     ELSE IF result = "no_access_token"
       THEN /\ upstoxAccessToken' = Null
            /\ upstoxRefreshToken' = Null
            /\ tokenExpiryTime' = now + TOKEN_LIFETIME
            /\ login' = [login EXCEPT !.pc = "save_delete", !.result = result,
                           !.save = [accessToken |-> Null, refreshToken |-> Null,
                                     updated_at |-> 0]]
            /\ UNCHANGED issued
       ELSE /\ login' = [login EXCEPT !.pc = "done", !.result = result,
                                        !.responses = Append(@, 500)]
            /\ UNCHANGED <<upstoxAccessToken, upstoxRefreshToken,
                           tokenExpiryTime, issued>>
  /\ UNCHANGED <<now, recentSignals, symbolToInstrumentMap, boot, restarts, syncLog, loaded, req,
                 arrivals, history, logins, authTokens, brokerPositions, orderCount, cron, tradingviewLogs>>

\* the token exchange returns (server.js 687-717, 720-723)
LoginExchangeDone(result) ==
  /\ login.pc = "exchange"
  /\ IF result = "tokens"
       THEN /\ upstoxAccessToken' = AccessTok(issued + 1)
            /\ upstoxRefreshToken' = RefreshTok(issued + 1)
            /\ tokenExpiryTime' = now + TOKEN_LIFETIME
            /\ issued' = issued + 1
            /\ login' = [login EXCEPT !.pc = "save_delete", !.result = result,
                           !.save = [accessToken |-> AccessTok(issued + 1),
                                     refreshToken |-> RefreshTok(issued + 1),
                                     updated_at |-> 0]]
       ELSE /\ login' = [login EXCEPT !.pc = "done", !.result = result,
                                        !.responses = Append(@, 500)]
            /\ UNCHANGED <<upstoxAccessToken, upstoxRefreshToken,
                           tokenExpiryTime, issued>>
  /\ UNCHANGED <<now, recentSignals, symbolToInstrumentMap, boot, restarts, syncLog, loaded, req,
                 arrivals, history, logins, authTokens, brokerPositions, orderCount, cron, tradingviewLogs>>

\* the delete of saveTokensToDB returns to the callback
LoginSaveDeleteDone(ok) ==
  /\ login.pc = "save_delete"
  /\ IF ok
       THEN /\ authTokens' = DeleteTokens(authTokens)
            /\ login' = [login EXCEPT !.pc = "save_insert", !.save.updated_at = now]
       ELSE /\ login' = [login EXCEPT !.pc = "done", !.responses = Append(@, 302)]
            /\ UNCHANGED authTokens
  /\ UNCHANGED <<now, upstoxAccessToken, upstoxRefreshToken, tokenExpiryTime,
                 recentSignals, symbolToInstrumentMap, boot, restarts, syncLog, loaded, req, arrivals, history,
                 logins, brokerPositions, issued, orderCount, cron, tradingviewLogs>>

\* the insert of saveTokensToDB returns to the callback, which redirects (719)
LoginSaveInsertDone(ok) ==
  /\ login.pc = "save_insert"
  /\ authTokens' = IF ok THEN InsertTokens(authTokens, login.save) ELSE authTokens
  /\ login' = [login EXCEPT !.pc = "done", !.responses = Append(@, 302),
                            !.saved = ok]
  /\ UNCHANGED <<now, upstoxAccessToken, upstoxRefreshToken, tokenExpiryTime,
                 recentSignals, symbolToInstrumentMap, boot, restarts, syncLog, loaded, req, arrivals, history,
                 logins, brokerPositions, issued, orderCount, cron, tradingviewLogs>>

(***************************************************************************)
(* Scheduled jobs: scheduleCronJobs (server.js 729-763).                   *)
(***************************************************************************)
\* the hours matched by the hour field "*/20" of "0 */20 * * *" (server.js 731)
RefreshHours == {0, 20}

\* the hours matched by the hour field "0" of "0 0 * * *" (server.js 746)
CleanupHours == {0}

\* the wall clock reads 00:00:00.000 at StartTime; a job whose minute field is
\* 0 is due at the full hours its hour field matches
Due(t, hours) ==
  (t - StartTime) % DayMs \in {h * HourMs : h \in hours}

\* expiryDate.setDate(expiryDate.getDate() - 30) (server.js 749-750)
ExpiryDate(t) == [toISOString(t) EXCEPT !.day = @ - RETENTION_DAYS]

\* .lt on two ISO timestamps
Lt(a, b) == a.day < b.day \/ (a.day = b.day /\ a.ms < b.ms)

\* a cleanup that also removes the row written exactly at the cutoff
DeleteOldLogs_Inclusive(rows, expiryDate) ==
  LET Keep(row) == Lt(expiryDate, row.created_at) IN SelectSeq(rows, Keep)

\* delete ... .lt("created_at", expiryDate.toISOString()) (server.js 752-755)
DeleteOldLogs(rows, expiryDate) ==
  LET Keep(row) == ~Lt(row.created_at, expiryDate) IN SelectSeq(rows, Keep)

NoDate == [day |-> 0, ms |-> 0]

IdleCron ==
  [pc |-> "idle", fired |-> -1, save |-> NoSave, refreshFailed |-> FALSE,
   cleanupPc |-> "idle", cleanupFired |-> -1, expiryDate |-> NoDate,
   cleanup |-> "", before |-> << >>, saveFailed |-> FALSE]

\* the token job fires and runs up to its first await (server.js 731-743,
\* 283-303)
CronFire ==
  /\ Due(now, RefreshHours)
  /\ cron.fired # now
  /\ cron.pc = "idle"
  /\ cron' = [cron EXCEPT
       !.fired = now,
       !.pc = IF /\ upstoxRefreshToken # Null
                 /\ upstoxAccessToken # Null
                 /\ IsStale(now, tokenExpiryTime)
                THEN "refresh" ELSE "idle"]
  /\ UNCHANGED <<now, upstoxAccessToken, upstoxRefreshToken, tokenExpiryTime,
                 recentSignals, symbolToInstrumentMap, boot, restarts, syncLog,
                 loaded, req, arrivals, history, login, logins, authTokens,
                 brokerPositions, issued, orderCount, tradingviewLogs>>

\* the refresh call made for the token job returns (server.js 290-320)
CronRefreshDone(result) ==
  /\ cron.pc = "refresh"
  /\ IF result = "tokens"
       THEN /\ upstoxAccessToken' = AccessTok(issued + 1)
            /\ upstoxRefreshToken' = RefreshTok(issued + 1)
            /\ tokenExpiryTime' = now + TOKEN_LIFETIME
            /\ issued' = issued + 1
            /\ cron' = [cron EXCEPT
                 !.pc = "save_delete",
                 !.save = [accessToken |-> AccessTok(issued + 1),
                           refreshToken |-> RefreshTok(issued + 1),
                           updated_at |-> 0]]
     ELSE IF result = "no_access_token"
       THEN /\ upstoxAccessToken' = Null
            /\ upstoxRefreshToken' = Null
            /\ tokenExpiryTime' = now + TOKEN_LIFETIME
            /\ cron' = [cron EXCEPT
                 !.pc = "save_delete",
                 !.refreshFailed = TRUE,
                 !.save = [accessToken |-> Null, refreshToken |-> Null,
                           updated_at |-> 0]]
            /\ UNCHANGED issued
       ELSE /\ cron' = [cron EXCEPT !.pc = "idle", !.refreshFailed = TRUE]
            /\ UNCHANGED <<upstoxAccessToken, upstoxRefreshToken,
                           tokenExpiryTime, issued>>
  /\ UNCHANGED <<now, recentSignals, symbolToInstrumentMap, boot, restarts,
                 syncLog, loaded, req, arrivals, history, login, logins,
                 authTokens, brokerPositions, orderCount, tradingviewLogs>>

\* the delete of saveTokensToDB returns to the token job (server.js 42-53)
CronSaveDeleteDone(ok) ==
  /\ cron.pc = "save_delete"
  /\ IF ok
       THEN /\ authTokens' = DeleteTokens(authTokens)
            /\ cron' = [cron EXCEPT !.pc = "save_insert", !.save.updated_at = now]
       ELSE /\ cron' = [cron EXCEPT !.pc = "idle", !.saveFailed = TRUE]
            /\ UNCHANGED authTokens
  /\ UNCHANGED <<now, upstoxAccessToken, upstoxRefreshToken, tokenExpiryTime,
                 recentSignals, symbolToInstrumentMap, boot, restarts, syncLog,
                 loaded, req, arrivals, history, login, logins,
                 brokerPositions, issued, orderCount, tradingviewLogs>>

\* the insert of saveTokensToDB returns to the token job (server.js 53-72)
CronSaveInsertDone(ok) ==
  /\ cron.pc = "save_insert"
  /\ authTokens' = IF ok THEN InsertTokens(authTokens, cron.save) ELSE authTokens
  /\ cron' = [cron EXCEPT !.pc = "idle", !.saveFailed = @ \/ ~ok]
  /\ UNCHANGED <<now, upstoxAccessToken, upstoxRefreshToken, tokenExpiryTime,
                 recentSignals, symbolToInstrumentMap, boot, restarts, syncLog,
                 loaded, req, arrivals, history, login, logins,
                 brokerPositions, issued, orderCount, tradingviewLogs>>

\* the cleanup job fires and runs up to its delete call (server.js 746-755)
CleanupFire ==
  /\ Due(now, CleanupHours)
  /\ cron.cleanupFired # now
  /\ cron.cleanupPc = "idle"
  /\ cron' = [cron EXCEPT !.cleanupFired = now, !.cleanupPc = "delete",
                          !.expiryDate = ExpiryDate(now), !.cleanup = ""]
  /\ UNCHANGED <<now, upstoxAccessToken, upstoxRefreshToken, tokenExpiryTime,
                 recentSignals, symbolToInstrumentMap, boot, restarts, syncLog,
                 loaded, req, arrivals, history, login, logins, authTokens,
                 brokerPositions, issued, orderCount, tradingviewLogs>>

\* the delete call of the cleanup job returns (server.js 752-761)
CleanupDone(ok) ==
  /\ cron.cleanupPc = "delete"
  /\ tradingviewLogs' = IF ok THEN DeleteOldLogs(tradingviewLogs, cron.expiryDate)
                        ELSE tradingviewLogs
  /\ cron' = [cron EXCEPT !.cleanupPc = "idle",
                          !.cleanup = IF ok THEN "ok" ELSE "failed",
                          !.before = tradingviewLogs]
  /\ UNCHANGED <<now, upstoxAccessToken, upstoxRefreshToken, tokenExpiryTime,
                 recentSignals, symbolToInstrumentMap, boot, restarts, syncLog,
                 loaded, req, arrivals, history, login, logins, authTokens,
                 brokerPositions, issued, orderCount>>

JobsIdle == cron.pc = "idle" /\ cron.cleanupPc = "idle"

\* no scheduled instant has been passed over: each job due now has fired
OnSchedule ==
  /\ Due(now, RefreshHours) => cron.fired = now
  /\ Due(now, CleanupHours) => cron.cleanupFired = now

\* an hour passes, the jobs firing on their schedule
HourTick ==
  /\ now - StartTime < MaxCronHours * HourMs
  /\ OnSchedule
  /\ JobsIdle
  /\ login.pc \in {"idle", "done"}
  /\ Tick(HourMs)

(***************************************************************************)
(* Specifications.                                                         *)
(***************************************************************************)
QuietPeriod == TOKEN_LIFETIME - REFRESH_MARGIN

\* a short step of the clock, at most MaxTicks of them
ShortTick ==
  /\ ((now - StartTime) % QuietPeriod) + TickMs <= MaxTicks * TickMs
  /\ Tick(TickMs)

\* one long quiet period that brings a fresh credential to the refresh margin
LongTick ==
  /\ now - StartTime < QuietPeriod
  /\ Tick(QuietPeriod)

StoredTokens ==
  {<< >>, <<[access_token |-> AccessTok(0), refresh_token |-> RefreshTok(0),
            updated_at |-> 0]>>}

\* the process as the app.listen callback starts (server.js 32-34, 112-118)
InitStartup ==
  /\ now = StartTime
  /\ upstoxAccessToken = Null
  /\ upstoxRefreshToken = Null
  /\ tokenExpiryTime = 0
  /\ recentSignals = << >>
  /\ symbolToInstrumentMap = << >>
  /\ boot = 1
  /\ restarts = 0
  /\ syncLog = << >>
  /\ loaded = ""
  /\ req = [r \in {1} |-> IdleSlot]
  /\ arrivals = 0
  /\ history = << >>
  /\ login = IdleLogin
  /\ logins = 0
  /\ authTokens \in StoredTokens
  /\ brokerPositions \in Portfolios
  /\ issued = 0
  /\ orderCount = 0
  /\ cron = IdleCron
  /\ tradingviewLogs = << >>

NextStartup ==
  \/ \E i \in 1..Len(Segments), remote \in BOOLEAN, local \in LocalFiles :
       SyncSegment(i, remote, local)
  \/ \E ok \in BOOLEAN : LoadTokens(ok)
  \/ \E hasCode \in BOOLEAN : LoginArrive(hasCode)
  \/ \E result \in TokenResults : LoginExchangeDone(result)
  \/ \E ok \in BOOLEAN : LoginSaveDeleteDone(ok)
  \/ \E ok \in BOOLEAN : LoginSaveInsertDone(ok)

SpecStartup == InitStartup /\ [][NextStartup]_vars

\* the process is stopped and started again: the module state is initialised
\* anew (server.js 32-34, 112-118), the auth_tokens table is what it was
Restart ==
  /\ restarts < MaxRestarts
  /\ login.pc \in {"idle", "done"}
  /\ restarts' = restarts + 1
  /\ upstoxAccessToken' = Null
  /\ upstoxRefreshToken' = Null
  /\ tokenExpiryTime' = 0
  /\ recentSignals' = << >>
  /\ symbolToInstrumentMap' = << >>
  /\ boot' = 1
  /\ syncLog' = << >>
  /\ loaded' = ""
  /\ cron' = IdleCron
  /\ UNCHANGED <<now, req, arrivals, history, login, logins, authTokens,
                 brokerPositions, issued, orderCount, tradingviewLogs>>

\* SpecRestart: start-up, logins and restarts, with time passing
NextRestart ==
  \/ NextStartup
  \/ Restart
  \/ ShortTick

SpecRestart == InitStartup /\ [][NextRestart]_vars

\* the whole catalog, synced in segment order
RECURSIVE SyncedFrom(_, _)
SyncedFrom(map, i) ==
  IF i > Len(Segments) THEN map
  ELSE SyncedFrom(MergeInstruments(map, Catalog(Segments[i])), i + 1)

\* the process once the app.listen callback has run: the catalog is synced
\* and the stored credential, if there was one, is loaded
Serving(portfolios, slots) ==
  /\ now = StartTime
  /\ authTokens \in StoredTokens
  /\ upstoxAccessToken = IF authTokens = << >> THEN Null ELSE authTokens[1].access_token
  /\ upstoxRefreshToken = IF authTokens = << >> THEN Null ELSE authTokens[1].refresh_token
  /\ tokenExpiryTime = IF authTokens = << >> THEN 0 ELSE StartTime + TOKEN_LIFETIME
  /\ recentSignals = << >>
  /\ symbolToInstrumentMap = SyncedFrom(<< >>, 1)
  /\ boot = Len(Segments) + 2
  /\ restarts = 0
  /\ syncLog = [i \in 1..Len(Segments) |->
                 [segment |-> Segments[i], remote |-> TRUE, local |-> "absent",
                  instruments |-> Catalog(Segments[i])]]
  /\ loaded = IF authTokens = << >> THEN "false" ELSE "true"
  /\ req = [r \in slots |-> IdleSlot]
  /\ arrivals = 0
  /\ history = << >>
  /\ login = IdleLogin
  /\ logins = 0
  /\ brokerPositions \in portfolios
  /\ issued = 0
  /\ orderCount = 0
  /\ cron = IdleCron

\* the same, with an empty tradingview_logs table
InitServing(portfolios, slots) ==
  /\ Serving(portfolios, slots)
  /\ tradingviewLogs = << >>

\* the steps of a token refresh started by a webhook handler
Refreshes ==
  \/ \E r \in Reqs, result \in TokenResults : RefreshDone(r, result)
  \/ \E r \in Reqs, ok \in BOOLEAN : SaveDeleteDone(r, ok)
  \/ \E r \in Reqs, ok \in BOOLEAN : SaveInsertDone(r, ok)

\* the other steps of the webhook handlers in flight
Handlers ==
  \/ \E r \in Reqs, ok \in BOOLEAN : PositionsDone(r, ok)
  \/ \E r \in Reqs, funds \in {NoFunds} \cup {Funds(m) : m \in Margins} : FundsDone(r, funds)
  \/ \E r \in Reqs, ok \in BOOLEAN, error \in OrderErrors : OrderDone(r, ok, error)
  \/ \E r \in Reqs, error \in UnreadAnswers : OrderAnswerUnread(r, error)
  \/ \E r \in Reqs, ok \in BOOLEAN : LogDone(r, ok)

\* Spec: requests are handled one after the other, over all the inputs
Init == InitServing(Portfolios, {1})

Next ==
  \/ LongTick
  \/ \E r \in Reqs, body \in Bodies : arrivals < MaxArrivals /\ Arrive(r, body)
  \/ Refreshes
  \/ Handlers

Spec == Init /\ [][Next]_vars

\* SpecDedup: repeated signals within and beyond the duplicate window
DedupBodies ==
  {Body(WEBHOOK_SECRET, Qualified("NSE", "SBIN"), act, 1, 0) : act \in {"BUY", "SELL"}}
  \cup {Body(WEBHOOK_SECRET, Str("SBIN"), "BUY", 1, 0)}

InitDedup == InitServing({<< >>}, {1})

NextDedup ==
  \/ ShortTick
  \/ \E r \in Reqs, body \in DedupBodies : arrivals < MaxRepeats /\ Arrive(r, body)
  \/ Handlers

SpecDedup == InitDedup /\ [][NextDedup]_vars

\* SpecRace: two requests in flight at the same time
RaceSlots == {1, 2}

RaceBodies ==
  {Body(WEBHOOK_SECRET, sym, "BUY", 1, 0) :
     sym \in {Qualified("NSE", "SBIN"), Qualified("BSE", "SBIN"), Qualified("NSE", "TCS")}}

RacePortfolios == {<< >>, Others(MAX_TOTAL_POSITIONS - 1)}

InitRace == InitServing(RacePortfolios, RaceSlots)

NextRace ==
  \/ \E r \in Reqs, body \in RaceBodies : arrivals < MaxArrivals /\ Arrive(r, body)
  \/ Handlers

SpecRace == InitRace /\ [][NextRace]_vars

\* SpecRefresh: requests that meet a fresh, a stale or no credential; every
\* call that ensureValidAccessToken has made returns
RefreshSlots == {1}

RefreshBodies ==
  {Body(WEBHOOK_SECRET, Qualified("NSE", sym), "BUY", 1, 0) : sym \in {"SBIN", "NOPE"}}

InitRefresh == InitServing({<< >>}, RefreshSlots)

NextRefresh ==
  \/ LongTick
  \/ \E r \in Reqs, body \in RefreshBodies : arrivals < MaxArrivals /\ Arrive(r, body)
  \/ Refreshes
  \/ Handlers

SpecRefresh == InitRefresh /\ [][NextRefresh]_vars /\ WF_vars(Refreshes)

\* a row of tradingview_logs written at the given instant
OldLog(day, ms) ==
  [symbol |-> Qualified("NSE", "SBIN"), action |-> "BUY", quantity |-> 1,
   price |-> 0, status |-> "success", reason |-> Reason("", 0, 0),
   order_id |-> 1, created_at |-> [day |-> day, ms |-> ms]]

\* rows written around thirty days before the first cleanup, and a recent one
OldLogs ==
  <<OldLog(0 - RETENTION_DAYS - 1, StartTime),
    OldLog(0 - RETENTION_DAYS, StartTime - 1),
    OldLog(0 - RETENTION_DAYS, StartTime),
    OldLog(1 - RETENTION_DAYS, StartTime + 1),
    OldLog(0, StartTime)>>

RECURSIVE SubSeqs(_)
SubSeqs(rows) ==
  IF rows = << >> THEN {<< >>}
  ELSE LET rest == SubSeqs(Tail(rows))
       IN rest \cup {<<Head(rows)>> \o t : t \in rest}

\* SpecCron: the scheduled jobs and OAuth logins over MaxCronHours hours
InitCron ==
  /\ Serving({<< >>}, {1})
  /\ tradingviewLogs \in SubSeqs(OldLogs)

NextCron ==
  \/ HourTick
  \/ CronFire
  \/ \E result \in TokenResults : CronRefreshDone(result)
  \/ \E ok \in BOOLEAN : CronSaveDeleteDone(ok)
  \/ \E ok \in BOOLEAN : CronSaveInsertDone(ok)
  \/ CleanupFire
  \/ \E ok \in BOOLEAN : CleanupDone(ok)
  \/ \E hasCode \in BOOLEAN : LoginArrive(hasCode)
  \/ \E result \in TokenResults : LoginExchangeDone(result)
  \/ \E ok \in BOOLEAN : LoginSaveDeleteDone(ok)
  \/ \E ok \in BOOLEAN : LoginSaveInsertDone(ok)

SpecCron == InitCron /\ [][NextCron]_vars

\* SpecPrune: signals arriving at a tracker that is about to exceed the
\* clean-up threshold
FillerNames == {"F0", "F1", "F2", "F3", "F4", "F5", "F6", "F7", "F8", "F9"}

\* the keys of PRUNE_THRESHOLD other (symbol, action) pairs
FillerKeys == {SignalKey(Qualified(ex, sym), "BUY") : ex, sym \in FillerNames}

\* recentSignals after signals for other pairs were let through at StartTime
Trackers ==
  {[k \in keys |-> StartTime] :
     keys \in {FillerKeys, FillerKeys \ {SignalKey(Qualified("F0", "F0"), "BUY")}}}

PruneBodies ==
  {Body(WEBHOOK_SECRET, Qualified("NSE", "SBIN"), act, 1, 0) : act \in {"BUY", "SELL"}}

InitPrune ==
  /\ now = StartTime
  /\ authTokens \in StoredTokens
  /\ upstoxAccessToken = IF authTokens = << >> THEN Null ELSE authTokens[1].access_token
  /\ upstoxRefreshToken = IF authTokens = << >> THEN Null ELSE authTokens[1].refresh_token
  /\ tokenExpiryTime = IF authTokens = << >> THEN 0 ELSE StartTime + TOKEN_LIFETIME
  /\ recentSignals \in Trackers
  /\ symbolToInstrumentMap = SyncedFrom(<< >>, 1)
  /\ boot = Len(Segments) + 2
  /\ restarts = 0
  /\ syncLog = [i \in 1..Len(Segments) |->
                 [segment |-> Segments[i], remote |-> TRUE, local |-> "absent",
                  instruments |-> Catalog(Segments[i])]]
  /\ loaded = IF authTokens = << >> THEN "false" ELSE "true"
  /\ req = [r \in {1} |-> IdleSlot]
  /\ arrivals = 0
  /\ history = << >>
  /\ login = IdleLogin
  /\ logins = 0
  /\ brokerPositions = << >>
  /\ issued = 0
  /\ orderCount = 0
  /\ cron = IdleCron
  /\ tradingviewLogs = << >>

PruneTick ==
  /\ now - StartTime < MaxPruneTicks * TickMs
  /\ Tick(TickMs)

NextPrune ==
  \/ PruneTick
  \/ \E r \in Reqs, body \in PruneBodies : arrivals < MaxRepeats /\ Arrive(r, body)
  \/ Handlers

SpecPrune == InitPrune /\ [][NextPrune]_vars

\* SpecShapes: signals whose action or quantity is outside the data model
ShapeBodies ==
  {Body(WEBHOOK_SECRET, Qualified("NSE", "SBIN"), act, qty, 0) :
     act \in {"BUY", "SELL", "HOLD"}, qty \in {-1, 1}}

InitShapes == InitServing(Portfolios, {1})

NextShapes ==
  \/ \E r \in Reqs, body \in ShapeBodies : arrivals < MaxArrivals /\ Arrive(r, body)
  \/ Handlers

SpecShapes == InitShapes /\ [][NextShapes]_vars

\* SpecTokens: a day after start, with the stored credential expired and
\* the token job due, two signals, the job and an OAuth callback at once
TokenSlots == {1, 2}

TokenBodies == {Body(WEBHOOK_SECRET, Qualified("NSE", "NOPE"), "BUY", 1, 0)}

\* the process a day after it started with a stored credential: the token
\* job has fired at 00:00 and at 20:00 and found the credential fresh
InitTokens ==
  /\ now = StartTime + DayMs
  /\ authTokens = <<[access_token |-> AccessTok(0), refresh_token |-> RefreshTok(0),
                     updated_at |-> 0]>>
  /\ upstoxAccessToken = AccessTok(0)
  /\ upstoxRefreshToken = RefreshTok(0)
  /\ tokenExpiryTime = StartTime + TOKEN_LIFETIME
  /\ recentSignals = << >>
  /\ symbolToInstrumentMap = SyncedFrom(<< >>, 1)
  /\ boot = Len(Segments) + 2
  /\ restarts = 0
  /\ syncLog = [i \in 1..Len(Segments) |->
                 [segment |-> Segments[i], remote |-> TRUE, local |-> "absent",
                  instruments |-> Catalog(Segments[i])]]
  /\ loaded = "true"
  /\ req = [r \in TokenSlots |-> IdleSlot]
  /\ arrivals = 0
  /\ history = << >>
  /\ login = IdleLogin
  /\ logins = 0
  /\ brokerPositions = << >>
  /\ issued = 0
  /\ orderCount = 0
  /\ cron = [IdleCron EXCEPT !.fired = StartTime + 20 * HourMs]
  /\ tradingviewLogs = << >>

NextTokens ==
  \/ \E r \in Reqs, body \in TokenBodies : arrivals < MaxArrivals /\ Arrive(r, body)
  \/ Refreshes
  \/ \E r \in Reqs, ok \in BOOLEAN : LogDone(r, ok)
  \/ CronFire
  \/ \E result \in TokenResults : CronRefreshDone(result)
  \/ \E ok \in BOOLEAN : CronSaveDeleteDone(ok)
  \/ \E ok \in BOOLEAN : CronSaveInsertDone(ok)
  \/ \E hasCode \in BOOLEAN : LoginArrive(hasCode)
  \/ \E result \in TokenResults : LoginExchangeDone(result)
  \/ \E ok \in BOOLEAN : LoginSaveDeleteDone(ok)
  \/ \E ok \in BOOLEAN : LoginSaveInsertDone(ok)

SpecTokens == InitTokens /\ [][NextTokens]_vars

(***************************************************************************)
(* Properties.                                                             *)
(***************************************************************************)
Events(s) == {s.events[i] : i \in 1..Len(s.events)}
Active(s) == s.pc # "idle"
Ended(s) == s.pc = "done"
BadToken(data) == data.present /\ (data.token = "" \/ data.token # WEBHOOK_SECRET)
Signal(s) == Active(s) /\ ReachesDuplicateCheck(s.data)
Skipped(s, text) ==
  /\ Len(s.outcomes) = 1
  /\ s.outcomes[1].status = "skipped"
  /\ s.outcomes[1].reason.text = text
Failed(s, text) ==
  /\ Len(s.outcomes) = 1
  /\ s.outcomes[1].status = "failed"
  /\ s.outcomes[1].reason.text = text

\* C1: a request whose payload token is missing or is not the secret is
\* answered 401 in the step that receives it, and that step writes no log
\* entry, makes no brokerage call and leaves the dedup tracker as it was.
C1_BadTokenRejected ==
  [][\A r \in Reqs :
       (req'[r] # req[r] /\ BadToken(req'[r].data)) =>
         /\ req'[r].pc = "done"
         /\ req'[r].responses = <<[code |-> 401, status |-> "", reason |-> "Unauthorized"]>>
         /\ req'[r].events = <<"response">>
         /\ req'[r].outcomes = << >>
         /\ req'[r].logRows = << >>
         /\ req'[r].placed = << >>
         /\ recentSignals' = recentSignals]_vars

C1_Witness ==
  \E r \in Reqs :
    /\ BadToken(req[r].data)
    /\ req[r].data.token = ""
    /\ req[r].responses # << >>
    /\ req[r].responses[1].code = 401
    /\ recentSignals # << >>

\* an earlier signal h with the (symbol, action) of s, less than the window
\* before s
Precedes(h, s) ==
  /\ h.seq < s.seq
  /\ h.symbol = s.data.symbol
  /\ h.action = s.data.action
  /\ s.at - h.at < DUPLICATE_SIGNAL_WINDOW

SuppressedAsDuplicate(s) ==
  /\ s.dup
  /\ Events(s) \subseteq {"log", "response"}
  /\ Skipped(s, "duplicate signal")
  /\ s.placed = << >>
  /\ s.responses = IF Ended(s)
                     THEN <<[code |-> 200, status |-> "skipped", reason |-> "duplicate signal"]>>
                     ELSE << >>

\* C2 as stated: of any two authenticated, well-formed signals with the same
\* (symbol, action), the second less than 60 s after the first, the second
\* is answered skipped / "duplicate signal" and reaches no later step.
C2_AnyRepeatSuppressed ==
  \A r \in Reqs : \A i \in 1..Len(history) :
    (Signal(req[r]) /\ Precedes(history[i], req[r])) => SuppressedAsDuplicate(req[r])

\* C2 amended: the same, when the first of the two was itself let through by
\* the duplicate check.
C2_RepeatOfAcceptedSuppressed ==
  \A r \in Reqs : \A i \in 1..Len(history) :
    (Signal(req[r]) /\ Precedes(history[i], req[r]) /\ ~history[i].duplicate)
      => SuppressedAsDuplicate(req[r])

C2_Witness ==
  \E r \in Reqs : \E i \in 1..Len(history) :
    /\ Signal(req[r]) /\ Precedes(history[i], req[r]) /\ ~history[i].duplicate
    /\ req[r].at > history[i].at
    /\ Ended(req[r])
    /\ req[r].responses # << >>

\* C3: for a signal let through by the duplicate check, the 200 "received"
\* response is the first thing the handler does: the token check, and with
\* it every lookup, fetch and order of the request, comes after it.
C3_ResponseBeforePipeline ==
  \A r \in Reqs :
    (Signal(req[r]) /\ ~req[r].dup) =>
      /\ req[r].responses = <<[code |-> 200, status |-> "received", reason |-> ""]>>
      /\ Len(req[r].events) >= 2
      /\ req[r].events[1] = "response"
      /\ req[r].events[2] = "token_check"
      /\ \A i \in 2..Len(req[r].events) : req[r].events[i] # "response"

C3_Witness ==
  \E r \in Reqs :
    /\ Signal(req[r]) /\ ~req[r].dup
    /\ req[r].events[1] = "response"
    /\ "order" \in Events(req[r])
    /\ Ended(req[r])

\* C4: every webhook request, whatever its body, gets exactly one response
\* (401, 400 or 200): none is answered twice and none has got no response
\* when its handler has finished.
C4_ExactlyOneResponse ==
  \A r \in Reqs :
    /\ Len(req[r].responses) <= 1
    /\ Ended(req[r]) =>
         /\ Len(req[r].responses) = 1
         /\ req[r].responses[1].code \in {401, 400, 200}

\* the trading symbol a signal is for: its symbol without exchange prefix
SignalTradingSymbol(symbol) ==
  LET parts == Split(symbol, ":")
  IN IF Len(parts) > 1 THEN parts[2] ELSE parts[1]

Holds(positions, sym, Test(_)) ==
  \E i \in 1..Len(positions) :
    positions[i].trading_symbol = sym /\ Test(positions[i].quantity)

HoldsLong(positions, sym) == Holds(positions, sym, LAMBDA q : q > 0)
HoldsShort(positions, sym) == Holds(positions, sym, LAMBDA q : q < 0)
HoldsOpen(positions, sym) == Holds(positions, sym, LAMBDA q : q # 0)

\* C5: of the signals that reach the directional-conflict check, prefixed
\* or not, a BUY is rejected ("already have long position", no order) when
\* the fetched positions hold a positive quantity of its trading symbol, a
\* SELL is rejected when they hold a negative one, and a SELL against a
\* positive or a BUY against a negative position passes the check.
C5_DirectionalConflict ==
  \A r \in Reqs :
    LET s == req[r]
        sym == SignalTradingSymbol(s.data.symbol)
    IN "check_direction" \in Events(s) =>
         /\ (s.data.action = "BUY" /\ HoldsLong(s.positions, sym)) =>
              (Skipped(s, "already have long position") /\ s.placed = << >>)
         /\ (s.data.action = "SELL" /\ HoldsShort(s.positions, sym)) =>
              (Skipped(s, "already have short position") /\ s.placed = << >>)
         /\ (s.data.action = "SELL" /\ HoldsLong(s.positions, sym)
               /\ ~HoldsShort(s.positions, sym)) => "check_count" \in Events(s)
         /\ (s.data.action = "BUY" /\ HoldsShort(s.positions, sym)
               /\ ~HoldsLong(s.positions, sym)) => "check_count" \in Events(s)

TooLarge(s) == Signal(s) /\ s.data.quantity > MAX_QUANTITY_PER_TRADE

\* C6 as stated: a signal whose quantity exceeds MAX_QUANTITY_PER_TRADE is
\* never placed, no funds lookup is made for it, and it is logged skipped.
C6_OversizeLoggedSkipped ==
  \A r \in Reqs :
    TooLarge(req[r]) =>
      /\ req[r].placed = << >>
      /\ "funds" \notin Events(req[r])
      /\ req[r].pc \in {"log", "done"} =>
           (Len(req[r].outcomes) = 1 /\ req[r].outcomes[1].status = "skipped")

\* C6 amended: a signal whose quantity exceeds MAX_QUANTITY_PER_TRADE is
\* never placed and no funds lookup is made for it; when it gets as far as
\* the quantity check it is logged skipped with the quantity reason, and
\* when an earlier step ends it, it is logged skipped or failed by that step.
C6_OversizeNeverFunded ==
  \A r \in Reqs :
    TooLarge(req[r]) =>
      /\ req[r].placed = << >>
      /\ "funds" \notin Events(req[r])
      /\ "order" \notin Events(req[r])
      /\ "check_quantity" \in Events(req[r]) =>
           /\ Skipped(req[r], "quantity exceeds max limit")
           /\ req[r].outcomes[1].reason.a = req[r].data.quantity
           /\ req[r].outcomes[1].reason.b = MAX_QUANTITY_PER_TRADE
      /\ req[r].pc \in {"log", "done"} =>
           (Len(req[r].outcomes) = 1 /\ req[r].outcomes[1].status \in {"skipped", "failed"})

C6_Witness ==
  \E r \in Reqs :
    /\ TooLarge(req[r])
    /\ "check_quantity" \in Events(req[r])
    /\ Skipped(req[r], "quantity exceeds max limit")
    /\ Ended(req[r])

\* priced signals that have passed the duplicate, directional, position-count
\* and quantity checks, with a value above the capital ceiling
OverCapital(s) ==
  /\ Signal(s)
  /\ s.data.price > 0
  /\ "funds" \in Events(s)
  /\ s.data.price * s.data.quantity > MAX_CAPITAL_PER_TRADE

\* C7 as stated: such a signal ends skipped with the capital-ceiling reason
\* and no order is placed.
C7_OverCapitalSkipped ==
  \A r \in Reqs :
    OverCapital(req[r]) =>
      /\ req[r].placed = << >>
      /\ req[r].pc # "funds" => Skipped(req[r], "required capital exceeds max limit")

\* C7 amended: no order is placed for such a signal; it ends skipped with
\* the capital-ceiling reason when the funds fetch made before the capital
\* check returned the funds, and failed "could not verify funds" when that
\* fetch failed.
C7_OverCapitalNeverPlaced ==
  \A r \in Reqs :
    LET s == req[r]
    IN OverCapital(s) =>
         /\ s.placed = << >>
         /\ "order" \notin Events(s)
         /\ (s.pc # "funds" /\ ~s.funds.isNull) =>
              /\ Skipped(s, "required capital exceeds max limit")
              /\ s.outcomes[1].reason.a = s.data.price * s.data.quantity
              /\ s.outcomes[1].reason.b = MAX_CAPITAL_PER_TRADE
         /\ (s.pc # "funds" /\ s.funds.isNull) => Failed(s, "could not verify funds")

C7_Witness ==
  \E r \in Reqs :
    /\ OverCapital(req[r])
    /\ ~req[r].funds.isNull
    /\ Skipped(req[r], "required capital exceeds max limit")
    /\ Ended(req[r])

Count(seq, e) == Cardinality({i \in 1..Len(seq) : seq[i] = e})

\* C8: an order is placed for a priced signal only when price * quantity is
\* at most the available margin that the one funds fetch of that same
\* request returned.
C8_MarginCovers ==
  \A r \in Reqs :
    LET s == req[r]
    IN (Signal(s) /\ s.data.price > 0 /\ s.placed # << >>) =>
         /\ Count(s.events, "funds") = 1
         /\ ~s.funds.isNull
         /\ s.data.price * s.data.quantity <= s.funds.available_margin

C8_Witness ==
  \E r \in Reqs :
    /\ Signal(req[r]) /\ req[r].data.price > 0
    /\ req[r].placed # << >>
    /\ req[r].accepted = 1
    /\ arrivals = 2

\* C9: a signal that reaches the position-count check is rejected by it
\* exactly when at least MAX_TOTAL_POSITIONS fetched positions are non-flat
\* and its trading symbol is not among the non-flat ones; a flat record of
\* the symbol gives no exemption.
C9_PositionCount ==
  \A r \in Reqs :
    LET s == req[r]
        sym == SignalTradingSymbol(s.data.symbol)
    IN "check_count" \in Events(s) =>
         (Skipped(s, "max total positions reached")
            <=> (/\ Len(ActivePositions(s.positions)) >= MAX_TOTAL_POSITIONS
                 /\ ~HoldsOpen(s.positions, sym)))

\* the predicates of the risk gate in their order, and the reason each gives
Chain ==
  <<"check_direction", "check_count", "check_quantity", "check_capital", "check_margin">>

Checks(s) == SelectSeq(s.events, LAMBDA e : e \in {Chain[i] : i \in 1..Len(Chain)})

\* the first predicate of the chain that fails on what the request has seen:
\* <<number of predicates evaluated after the duplicate check, reason>>
FirstFailure(s) ==
  LET existingPosition == Find(s.positions, TradingSymbolOf(s.data.symbol))
      requiredCapital == s.data.price * s.data.quantity
  IN IF s.dup THEN <<0, "duplicate signal">>
     ELSE IF LongConflict(s.data.action, existingPosition)
       THEN <<1, "already have long position">>
     ELSE IF ShortConflict(s.data.action, existingPosition)
       THEN <<1, "already have short position">>
     ELSE IF PositionLimitReached(s.positions, existingPosition)
       THEN <<2, "max total positions reached">>
     ELSE IF QuantityExceeded(s.data.quantity)
       THEN <<3, "quantity exceeds max limit">>
     ELSE IF s.data.price > 0 /\ requiredCapital > MAX_CAPITAL_PER_TRADE
       THEN <<4, "required capital exceeds max limit">>
     ELSE IF s.data.price > 0 /\ requiredCapital > s.funds.available_margin
       THEN <<5, "insufficient margin">>
     ELSE <<IF s.data.price > 0 THEN 5 ELSE 3, "">>

\* C10: the risk gate is an ordered chain (duplicate, directional conflict,
\* position count, quantity, capital, margin): a skipped signal carries the
\* reason of the first predicate in this order that fails on what the request
\* fetched, the predicates evaluated for it are exactly those up to that one,
\* and no order is placed; an order is placed only when none fails.
C10_OrderedChain ==
  \A r \in Reqs :
    LET s == req[r]
        first == FirstFailure(s)
    IN Signal(s) =>
         /\ (Len(s.outcomes) = 1 /\ s.outcomes[1].status = "skipped") =>
              /\ s.outcomes[1].reason.text = first[2]
              /\ Checks(s) = SubSeq(Chain, 1, first[1])
              /\ s.placed = << >>
         /\ s.placed # << >> =>
              /\ first[2] = ""
              /\ Checks(s) = SubSeq(Chain, 1, first[1])

C10_Witness ==
  \E r \in Reqs :
    /\ Signal(req[r])
    /\ Skipped(req[r], "required capital exceeds max limit")
    /\ req[r].data.price * req[r].data.quantity > req[r].funds.available_margin
    /\ Checks(req[r]) = SubSeq(Chain, 1, 4)

\* C11: when a brokerage call made for a signal fails (token refresh,
\* position fetch, funds fetch, order placement) the signal is aborted: after
\* a failed refresh, position fetch or funds fetch the pipeline makes no
\* further brokerage call and places no order, and a failed order placement is
\* the only one and books nothing.
C11_FailedCallAborts ==
  \A r \in Reqs :
    LET s == req[r]
    IN Signal(s) =>
         /\ "refresh" \in s.failedCalls =>
               Events(s) \cap {"positions", "funds", "order"} = {}
         /\ "positions" \in s.failedCalls =>
               Events(s) \cap {"funds", "order"} = {}
         /\ "funds" \in s.failedCalls => "order" \notin Events(s)
         /\ "order" \in s.failedCalls => Len(s.placed) = 1 /\ s.accepted = 0

\* the step in which ensureValidAccessToken returns to the handler of r
Returns(r) ==
  /\ req'[r].ensured # << >>
  /\ req'[r].seq # req[r].seq \/ req[r].ensured = << >>

\* C12: ensureValidAccessToken returns true only if at its return an access
\* token is present in memory and either the credential was not stale when
\* checked or the refresh of this call succeeded; it returns false when no
\* token is set and when the refresh fails.
C12_ValidOnlyWithToken ==
  [][\A r \in Reqs :
       Returns(r) =>
         /\ req'[r].ensured = <<TRUE>> =>
               /\ upstoxAccessToken' # Null
               /\ \/ req'[r].refreshResult = "" /\ ~IsStale(now', tokenExpiryTime')
                  \/ req'[r].refreshResult = "tokens"
         /\ (req'[r].refreshResult = "" /\ upstoxAccessToken = Null) =>
               req'[r].ensured = <<FALSE>>
         /\ req'[r].refreshResult = "error" => req'[r].ensured = <<FALSE>>]_vars

\* C13: the step in which a refresh attempt fails leaves the access token,
\* the refresh token and the expiry as they were (still stale), returns false
\* to the handler and logs the signal as failed "no valid access token";
\* that signal makes no lookup, position fetch, funds fetch or order.
C13_FailedRefreshAborts ==
  [][\A r \in Reqs :
       /\ (req[r].pc = "refresh" /\ "refresh" \in req'[r].failedCalls) =>
            /\ upstoxAccessToken' = upstoxAccessToken
            /\ upstoxRefreshToken' = upstoxRefreshToken
            /\ tokenExpiryTime' = tokenExpiryTime
            /\ IsStale(now', tokenExpiryTime')
            /\ req'[r].ensured = <<FALSE>>
            /\ req'[r].pc = "log"
            /\ Failed(req'[r], "no valid access token")
       /\ "refresh" \in req'[r].failedCalls =>
            /\ Events(req'[r]) \cap {"lookup", "positions", "funds", "order"} = {}
            /\ req'[r].placed = << >>
            /\ Failed(req'[r], "no valid access token")]_vars

C13_Witness ==
  \E r \in Reqs :
    /\ "refresh" \in req[r].failedCalls
    /\ req[r].refreshResult = "error"
    /\ Ended(req[r])
    /\ req[r].logRows # << >>
    /\ upstoxAccessToken = AccessTok(0)

InRefresh(s) == s.pc \in {"refresh", "save_delete", "save_insert"}

\* C14: a call of ensureValidAccessToken sends at most one refresh request,
\* and once it has sent it the call returns, given that the calls it makes
\* return.
C14_SingleRefreshTerminates ==
  /\ [](\A r \in RefreshSlots : Count(req[r].events, "refresh") <= 1)
  /\ \A r \in RefreshSlots : InRefresh(req[r]) ~> (req[r].ensured # << >>)

C14_Witness ==
  \E r \in RefreshSlots :
    /\ Count(req[r].events, "refresh") = 1
    /\ "refresh" \in req[r].failedCalls
    /\ req[r].ensured = <<FALSE>>
    /\ arrivals = 2

\* the row that saveTokensToDB inserts for the activation
SavedRow(s) ==
  [access_token |-> s.save.accessToken, refresh_token |-> s.save.refreshToken,
   updated_at |-> s.save.updated_at]

\* C15: once ensureValidAccessToken has returned true after a successful
\* refresh, the in-memory pair is the new pair with expiry 23 h after the
\* refresh and the store holds that pair and no other.
C15_RefreshPersisted ==
  \A r \in Reqs :
    LET s == req[r]
    IN (s.refreshResult = "tokens" /\ s.ensured = <<TRUE>>) =>
         /\ upstoxAccessToken = s.save.accessToken
         /\ upstoxRefreshToken = s.save.refreshToken
         /\ upstoxAccessToken # AccessTok(0)
         /\ tokenExpiryTime = now + TOKEN_LIFETIME
         /\ authTokens = <<SavedRow(s)>>

\* the step in which loadTokensFromDB runs after a restart
LoadsAfterRestart == boot = Len(Segments) + 1 /\ boot' = boot + 1 /\ restarts > 0

\* the last call of saveTokensToDB has run to its end
SaveHasRun == login.pc = "done" /\ login.save.accessToken # Null

RoundTrip ==
  /\ loaded' = "true"
  /\ upstoxAccessToken' = login.save.accessToken
  /\ upstoxRefreshToken' = login.save.refreshToken
  /\ tokenExpiryTime' = now' + TOKEN_LIFETIME

Rejected(s) == Active(s) /\ s.data.present /\ ~ReachesDuplicateCheck(s.data)

\* C17: an authenticated, well-formed signal never has more than one
\* terminal outcome and has exactly one (skipped, failed or success) when its
\* handler has ended; the order log then holds exactly one entry for it,
\* carrying that outcome, unless the storage call failed; a request answered
\* 401 or 400 has no outcome and no log entry.
C17_OneOutcomeOneLogEntry ==
  \A r \in Reqs :
    LET s == req[r]
    IN /\ Signal(s) =>
            /\ Len(s.outcomes) <= 1
            /\ s.logRows # << >> => s.logRows = s.outcomes
            /\ Ended(s) =>
                  /\ Len(s.outcomes) = 1
                  /\ s.outcomes[1].status \in {"skipped", "failed", "success"}
                  /\ Count(s.events, "log") = 1
                  /\ "log" \notin s.failedCalls => s.logRows = s.outcomes
       /\ Rejected(s) =>
            /\ s.outcomes = << >>
            /\ s.logRows = << >>
            /\ "log" \notin Events(s)

C17_Witness ==
  \E r \in Reqs :
    /\ Signal(req[r]) /\ Ended(req[r])
    /\ Len(req[r].logRows) = 1
    /\ req[r].logRows[1].status = "success"
    /\ req[r].logRows[1].order_id = 1
    /\ arrivals = 2

\* C18: a request makes at most one order-placement call; when that call
\* fails nothing is booked, no second call is made, and the outcome is failed
\* with the brokerage's error message if the error carries one and with the
\* message of the error otherwise.
C18_OrderNeverRetried ==
  \A r \in Reqs :
    LET s == req[r]
    IN /\ Count(s.events, "order") <= 1
       /\ Len(s.placed) <= 1
       /\ "order" \in s.failedCalls =>
            /\ Len(s.placed) = 1
            /\ s.accepted = 0
            /\ Failed(s, IF s.orderError.response # "" THEN s.orderError.response
                          ELSE s.orderError.message)

C18_Witness ==
  \E r \in Reqs :
    /\ "order" \in req[r].failedCalls
    /\ req[r].orderError.response = "Insufficient funds"
    /\ Failed(req[r], "Insufficient funds")
    /\ Ended(req[r])

\* C19: every order sent is a MARKET order with DAY validity, disclosed
\* quantity 0, trigger price 0 and is_amo false; its quantity and transaction
\* type are the signal's quantity and action, its instrument is what the
\* lookup returns for the signal's symbol, and it is authorized with the
\* access token in memory when it is sent.
C19_OrderShape ==
  [][\A r \in Reqs :
       (req'[r].placed # << >> /\ req'[r].placed # req[r].placed) =>
         LET order == req'[r].placed[Len(req'[r].placed)]
             data == req'[r].data
         IN /\ order.order_type = "MARKET"
            /\ order.validity = "DAY"
            /\ order.disclosed_quantity = 0
            /\ order.trigger_price = 0
            /\ order.is_amo = FALSE
            /\ order.quantity = data.quantity
            /\ order.transaction_type = data.action
            /\ order.instrument_token # Null
            /\ order.instrument_token = getInstrumentToken(data.symbol)
            /\ order.authorization = upstoxAccessToken']_vars

C19_Witness ==
  \E r \in Reqs :
    /\ Len(req[r].placed) = 1
    /\ req[r].placed[1].transaction_type = "SELL"
    /\ req[r].placed[1].quantity = 1
    /\ req[r].placed[1].instrument_token = Str("NSE_EQ|TCS")
    /\ req[r].placed[1].authorization = AccessTok(1)
    /\ req[r].accepted = 1

\* exchange prefixes and trading symbols to look up
Prefixes == {"NSE", "BSE", "MCX", "NFO", ""}
LookupSymbols == {"SBIN", "TCS", "GOLD", "NOPE"}

\* C20: for every trading symbol S and every exchange prefix P the lookups
\* of "P:S" and of "S" return the same value: the identifier stored for S
\* when S is in the by-symbol map, and the not-found value when it is not.
C20_PrefixIrrelevant ==
  \A S \in LookupSymbols, P \in Prefixes :
    /\ getInstrumentToken(Qualified(P, S)) = getInstrumentToken(Str(S))
    /\ IF Str(S) \in DOMAIN symbolToInstrumentMap
         THEN getInstrumentToken(Qualified(P, S)) =
                symbolToInstrumentMap[Str(S)].instrument_key
         ELSE getInstrumentToken(Qualified(P, S)) = Null

C20_Witness ==
  /\ boot > Len(Segments)
  /\ Str("SBIN") \in DOMAIN symbolToInstrumentMap
  /\ Str("GOLD") \notin DOMAIN symbolToInstrumentMap
  /\ getInstrumentToken(Qualified("MCX", "SBIN")) = Str("BSE_EQ|SBIN")
  /\ getInstrumentToken(Str("SBIN")) = Str("BSE_EQ|SBIN")
  /\ getInstrumentToken(Qualified("MCX", "GOLD")) = Null

\* C21: a turn of the segment loop never raises: whatever the download and
\* the fallback do, the loop goes on to the next segment (and after the last
\* one the caller goes on); the turn merges the download when it succeeded,
\* else the local file when it is present and parses, and else leaves the map
\* as it was.
C21_SyncNeverRaises ==
  [][\A i \in 1..Len(Segments) :
       (boot = i /\ boot' # boot /\ restarts' = restarts) =>
         /\ boot' = i + 1
         /\ Len(syncLog') = i
         /\ syncLog'[i].segment = Segments[i]
         /\ symbolToInstrumentMap' =
              IF syncLog'[i].remote
                THEN MergeInstruments(symbolToInstrumentMap, Catalog(Segments[i]))
              ELSE IF syncLog'[i].local = "ok"
                THEN MergeInstruments(symbolToInstrumentMap, LocalCatalog(Segments[i]))
              ELSE symbolToInstrumentMap]_vars

C21_Witness ==
  /\ Len(syncLog) = Len(Segments)
  /\ ~syncLog[1].remote /\ syncLog[1].local = "ok"
  /\ ~syncLog[2].remote /\ syncLog[2].local = "bad"
  /\ syncLog[3].remote
  /\ DOMAIN symbolToInstrumentMap = {Str("SBIN"), Str("GOLD"), Str("SILVER")}
  /\ symbolToInstrumentMap[Str("SILVER")].exchange = "MCX"
  /\ loaded # ""

\* every entry that the syncs of this process have iterated over, in order
RECURSIVE Written(_)
Written(log) ==
  IF log = << >> THEN << >> ELSE log[1].instruments \o Written(Tail(log))

EntriesOf(symbol) ==
  SelectSeq(Written(syncLog), LAMBDA inst : inst.trading_symbol = symbol)

WrittenSymbols == {Written(syncLog)[i].trading_symbol : i \in 1..Len(Written(syncLog))}

Last(seq) == seq[Len(seq)]

\* C22 as stated: the map holds, for every symbol met, the last entry for
\* it in catalog order, unless there is an NSE entry, which is preferred.
C22_LastWriterWins ==
  /\ DOMAIN symbolToInstrumentMap = WrittenSymbols
  /\ \A symbol \in WrittenSymbols :
       LET all == EntriesOf(symbol)
           nse == SelectSeq(all, LAMBDA inst : inst.exchange = "NSE")
       IN symbolToInstrumentMap[symbol] = IF nse # << >> THEN Last(nse) ELSE Last(all)

\* C22: the map holds one instrument for every symbol met since the process
\* started: the last NSE entry for it in catalog order if there is one, and
\* otherwise the first entry for it, which later entries of other exchanges
\* do not replace; the map of a restarted process holds nothing of the syncs
\* before the restart.
C22_FirstUnlessNSE ==
  /\ DOMAIN symbolToInstrumentMap = WrittenSymbols
  /\ \A symbol \in WrittenSymbols :
       LET all == EntriesOf(symbol)
           nse == SelectSeq(all, LAMBDA inst : inst.exchange = "NSE")
       IN symbolToInstrumentMap[symbol] = IF nse # << >> THEN Last(nse) ELSE all[1]

C22_Witness ==
  /\ restarts = 1
  /\ Len(syncLog) = Len(Segments)
  /\ \A i \in 1..Len(Segments) : syncLog[i].remote
  /\ symbolToInstrumentMap[Str("SILVER")].instrument_key = Str("BSE_FO|SILVER")
  /\ symbolToInstrumentMap[Str("SBIN")].instrument_key = Str("NSE_EQ|SBIN")
  /\ symbolToInstrumentMap[Str("TCS")].instrument_key = Str("NSE_EQ|TCS")

\* an authenticated payload from which symbol, action or quantity is absent
MissingField(data) ==
  /\ data.present
  /\ data.token = WEBHOOK_SECRET
  /\ data.symbol = << >> \/ data.action = "" \/ data.quantity = 0

\* C23: an authenticated request without symbol, action or quantity is
\* answered 400 in the step that receives it and stops there: that step
\* leaves the dedup tracker as it was, writes no log entry and makes no
\* brokerage call.
C23_MissingFieldRejected ==
  [][\A r \in Reqs :
       (req'[r] # req[r] /\ MissingField(req'[r].data)) =>
         /\ req'[r].pc = "done"
         /\ req'[r].responses =
              <<[code |-> 400, status |-> "", reason |-> "Invalid payload"]>>
         /\ req'[r].events = <<"response">>
         /\ req'[r].outcomes = << >>
         /\ req'[r].logRows = << >>
         /\ req'[r].placed = << >>
         /\ recentSignals' = recentSignals]_vars

C23_Witness ==
  \E r \in Reqs :
    /\ MissingField(req[r].data)
    /\ req[r].data.symbol = << >>
    /\ req[r].responses # << >>
    /\ req[r].responses[1].code = 400
    /\ recentSignals # << >>

\* a signal whose symbol is not in the by-symbol map
Unresolved(s) == Signal(s) /\ getInstrumentToken(s.data.symbol) = Null

\* C24 as stated: every signal whose symbol does not resolve ends failed
\* "instrument token not found", without position fetch, funds fetch or
\* order.
C24_UnknownSymbolFailed ==
  \A r \in Reqs :
    Unresolved(req[r]) =>
      /\ Events(req[r]) \cap {"positions", "funds", "order"} = {}
      /\ Ended(req[r]) => Failed(req[r], "instrument token not found")

\* C24: no position fetch, funds fetch or order is ever made for a signal
\* whose symbol does not resolve; it ends failed "instrument token not
\* found" when it gets as far as the lookup, and otherwise as a duplicate
\* or failed "no valid access token".
C24_UnknownSymbolNeverTraded ==
  \A r \in Reqs :
    LET s == req[r]
    IN Unresolved(s) =>
         /\ Events(s) \cap {"positions", "funds", "order"} = {}
         /\ s.placed = << >>
         /\ "lookup" \in Events(s) =>
               s.pc \in {"log", "done"} /\ Failed(s, "instrument token not found")
         /\ Ended(s) =>
               \/ Failed(s, "instrument token not found")
               \/ Failed(s, "no valid access token")
               \/ Skipped(s, "duplicate signal")

C24_Witness ==
  \E r \in Reqs :
    /\ Unresolved(req[r])
    /\ Ended(req[r])
    /\ Failed(req[r], "instrument token not found")
    /\ req[r].logRows # << >>

\* the step in which getFunds returns to the handler of an unpriced signal
FundsReturnUnpriced(r) ==
  req[r].pc = "funds" /\ req'[r].pc # "funds" /\ req[r].data.price = 0

\* C25 as stated: the outcome of a signal without price does not depend on
\* the result of the funds lookup: past the quantity check its order is
\* placed.
C25_UnpricedIgnoresFunds ==
  [][\A r \in Reqs :
       FundsReturnUnpriced(r) =>
         /\ req'[r].pc = "order"
         /\ Len(req'[r].placed) = 1
         /\ Events(req'[r]) \cap {"check_capital", "check_margin"} = {}]_vars

\* C25: a signal without price is not subject to the capital or margin
\* predicate: when its funds lookup returns funds its order is placed
\* whatever the available margin is; the lookup is made all the same, and
\* when it fails the signal ends failed "could not verify funds".
C25_UnpricedIgnoresMargin ==
  [][\A r \in Reqs :
       FundsReturnUnpriced(r) =>
         /\ Events(req'[r]) \cap {"check_capital", "check_margin"} = {}
         /\ IF req'[r].funds.isNull
              THEN /\ Failed(req'[r], "could not verify funds")
                   /\ req'[r].placed = << >>
              ELSE /\ req'[r].pc = "order"
                   /\ Len(req'[r].placed) = 1]_vars

C25_Witness ==
  \E r \in Reqs :
    /\ Signal(req[r]) /\ req[r].data.price = 0
    /\ ~req[r].funds.isNull
    /\ req[r].funds.available_margin = 100
    /\ Len(req[r].placed) = 1
    /\ req[r].accepted = 1

\* the number of non-flat positions in a list
OpenCount(positions) ==
  Cardinality({i \in 1..Len(positions) : positions[i].quantity # 0})

Placed(s) == Signal(s) /\ Len(s.placed) = 1

\* C26: the directional check of a signal is decided on the snapshot that
\* its own handler fetched and on nothing else: a BUY has placed its order
\* only if that snapshot held no long position of its trading symbol. Nothing
\* serializes two handlers, so two BUY signals for one trading symbol under
\* different dedup keys can both fetch their snapshot before either order
\* lands, both pass, and both place an order (the witness).
C26_DirectionOnOwnSnapshot ==
  \A r \in Reqs :
    (Placed(req[r]) /\ req[r].data.action = "BUY") =>
      ~HoldsLong(req[r].positions, SignalTradingSymbol(req[r].data.symbol))

C26_Witness ==
  /\ Placed(req[1]) /\ Placed(req[2])
  /\ req[1].data.action = "BUY" /\ req[2].data.action = "BUY"
  /\ req[1].data.symbol # req[2].data.symbol
  /\ SignalTradingSymbol(req[1].data.symbol) = Str("SBIN")
  /\ SignalTradingSymbol(req[2].data.symbol) = Str("SBIN")
  /\ ~req[1].dup /\ ~req[2].dup
  /\ req[1].positions = << >> /\ req[2].positions = << >>
  /\ "positions" \notin req[1].failedCalls /\ "positions" \notin req[2].failedCalls
  /\ req[1].accepted = 1 /\ req[2].accepted = 1
  /\ brokerPositions = <<Pos("SBIN", 2)>>

\* C27: the position-count check of a signal is decided on the snapshot
\* that its own handler fetched: it has placed its order only if that
\* snapshot held fewer than MAX_TOTAL_POSITIONS open positions or a record of
\* its symbol. With MAX_TOTAL_POSITIONS - 1 open positions, two signals for
\* two new symbols in flight together both pass and both place, which leaves
\* more than MAX_TOTAL_POSITIONS open positions (the witness).
C27_CountOnOwnSnapshot ==
  \A r \in Reqs :
    Placed(req[r]) =>
      \/ OpenCount(req[r].positions) < MAX_TOTAL_POSITIONS
      \/ \E i \in 1..Len(req[r].positions) :
           req[r].positions[i].trading_symbol =
             SignalTradingSymbol(req[r].data.symbol)

C27_Witness ==
  /\ Placed(req[1]) /\ Placed(req[2])
  /\ SignalTradingSymbol(req[1].data.symbol) # SignalTradingSymbol(req[2].data.symbol)
  /\ req[1].positions = Others(MAX_TOTAL_POSITIONS - 1)
  /\ req[2].positions = Others(MAX_TOTAL_POSITIONS - 1)
  /\ "check_count" \in Events(req[1]) /\ "check_count" \in Events(req[2])
  /\ req[1].accepted = 1 /\ req[2].accepted = 1
  /\ OpenCount(brokerPositions) > MAX_TOTAL_POSITIONS

\* C28: a request whose brokerage call has not returned keeps no other
\* request waiting: while any handler is suspended in a call the server can
\* receive the next request, and each suspended handler can take the return
\* of its own call. (The witness: a request that arrived after one that is
\* still waiting for its positions has been answered and has run to success.)
C28_OthersNotBlocked ==
  \A r \in Reqs :
    /\ (req[r].pc \in {"idle", "done"}
          /\ \A q \in Reqs : q < r => req[q].pc \notin {"idle", "done"}) =>
         \A body \in RaceBodies : ENABLED Arrive(r, body)
    /\ req[r].pc = "positions" => ENABLED PositionsDone(r, TRUE)
    /\ req[r].pc = "funds" => ENABLED FundsDone(r, Funds(100))
    /\ req[r].pc = "order" => ENABLED OrderDone(r, TRUE, NoError)
    /\ req[r].pc = "log" => ENABLED LogDone(r, TRUE)

C28_Witness ==
  /\ req[1].pc = "positions" /\ req[1].seq = 1
  /\ req[2].seq = 2
  /\ req[2].responses = <<[code |-> 200, status |-> "received", reason |-> ""]>>
  /\ Ended(req[2])
  /\ req[2].accepted = 1
  /\ Len(req[2].logRows) = 1 /\ req[2].logRows[1].status = "success"

\* C29: the credential is refreshed before it expires: with the token job
\* firing on its schedule, a refresh token stored and no refresh call having
\* failed, the clock never reaches the recorded expiry of the credential in
\* memory (a refresh moves the expiry a full lifetime ahead).  The job only
\* calls ensureValidAccessToken, which does nothing until the last minute of
\* the lifetime, and it fires at 00:00 and 20:00 only.
C29_RefreshedBeforeExpiry ==
  (/\ upstoxAccessToken # Null
   /\ upstoxRefreshToken # Null
   /\ ~cron.refreshFailed
   /\ OnSchedule
   /\ JobsIdle) => now < tokenExpiryTime

\* a row written more than thirty days before the instant t
OlderThanRetention(row, t) ==
  LET days == (t \div DayMs) - row.created_at.day
  IN days > 30 \/ (days = 30 /\ row.created_at.ms < t % DayMs)

CleanupReturns == cron.cleanupPc = "delete" /\ cron'.cleanupPc = "idle"

\* C30: a run of the cleanup job whose delete call succeeds removes exactly
\* the log rows written more than thirty days before the run and keeps all
\* others; a run whose call fails leaves the table as it was; either way
\* nothing else in the process changes, and no other step of the scheduled
\* jobs or of a login removes a row.
C30_CleanupRetention ==
  [][/\ CleanupReturns =>
          LET Kept(row) == ~OlderThanRetention(row, cron.cleanupFired)
          IN /\ cron'.cleanup \in {"ok", "failed"}
             /\ cron'.cleanup = "ok" =>
                  tradingviewLogs' = SelectSeq(tradingviewLogs, Kept)
             /\ cron'.cleanup = "failed" => tradingviewLogs' = tradingviewLogs
             /\ cron'.pc = cron.pc /\ cron'.save = cron.save
             /\ UNCHANGED <<now, upstoxAccessToken, upstoxRefreshToken,
                            tokenExpiryTime, recentSignals,
                            symbolToInstrumentMap, req, login, authTokens,
                            brokerPositions, orderCount>>
     /\ ~CleanupReturns => tradingviewLogs' = tradingviewLogs]_vars

\* the first cleanup has run on the full table: the two rows older than
\* thirty days are gone, the row written exactly thirty days before stays
C30_Witness ==
  /\ cron.cleanup = "ok"
  /\ cron.cleanupFired = StartTime
  /\ cron.before = OldLogs
  /\ tradingviewLogs = <<OldLogs[3], OldLogs[4], OldLogs[5]>>

\* C31: the clean-up of the tracker drops only entries older than the
\* 60-second window, so whatever signals for other pairs arrive in between, a
\* signal that repeats a pair less than 60 s after a signal of that pair was
\* let through is a duplicate.
C31_PruneKeepsWindow ==
  /\ \A k \in DOMAIN recentSignals : recentSignals[k] <= now
  /\ \A i, j \in 1..Len(history) :
       (/\ i < j
        /\ history[i].symbol = history[j].symbol
        /\ history[i].action = history[j].action
        /\ ~history[i].duplicate
        /\ history[j].at - history[i].at < DUPLICATE_SIGNAL_WINDOW)
         => history[j].duplicate
  /\ \A i \in 1..Len(history) :
       (~history[i].duplicate /\ now - history[i].at <= DUPLICATE_SIGNAL_WINDOW)
         => SignalKey(history[i].symbol, history[i].action) \in DOMAIN recentSignals

\* a signal of another pair has made the clean-up drop the old entries
\* between a signal that was let through and its repeat, which was suppressed
C31_Witness ==
  /\ Len(history) = 3
  /\ history[1].action = history[3].action /\ history[2].action # history[1].action
  /\ ~history[1].duplicate /\ ~history[2].duplicate /\ history[3].duplicate
  /\ history[2].at > history[1].at
  /\ DOMAIN recentSignals \cap FillerKeys = {}
  /\ Cardinality(DOMAIN recentSignals) = 2

\* the signals of the pair of history[j] that were let through before it
PassedBefore(j) ==
  {i \in 1..(j - 1) : /\ history[i].symbol = history[j].symbol
                      /\ history[i].action = history[j].action
                      /\ ~history[i].duplicate}

\* the last of them
LastPassed(j) == CHOOSE i \in PassedBefore(j) : \A k \in PassedBefore(j) : k <= i

\* history[i] is the last signal of its pair that was let through
IsLastPassed(i) ==
  /\ ~history[i].duplicate
  /\ \A k \in (i + 1)..Len(history) :
       (history[k].symbol = history[i].symbol /\ history[k].action = history[i].action)
         => history[k].duplicate

\* C32: a suppressed signal leaves the stored timestamp of its pair alone:
\* the tracker holds, for each pair, the instant of the last signal of the
\* pair that was let through, and a signal arriving 60 s or more after that
\* one is let through, however many duplicates were suppressed in between.
C32_DuplicatesDoNotRestamp ==
  /\ \A j \in 1..Len(history) :
       (/\ PassedBefore(j) # {}
        /\ history[j].at - history[LastPassed(j)].at >= DUPLICATE_SIGNAL_WINDOW)
         => ~history[j].duplicate
  /\ \A i \in 1..Len(history) :
       IsLastPassed(i) =>
         MapGet(recentSignals, SignalKey(history[i].symbol, history[i].action))
           = history[i].at

\* a pair let through, suppressed 30 s later, and let through again 60 s
\* after its first signal
C32_Witness ==
  /\ Len(history) = 3
  /\ \A i \in 1..3 : history[i].symbol = history[1].symbol
                     /\ history[i].action = history[1].action
  /\ ~history[1].duplicate /\ history[2].duplicate /\ ~history[3].duplicate
  /\ history[2].at - history[1].at < DUPLICATE_SIGNAL_WINDOW
  /\ history[3].at - history[2].at < DUPLICATE_SIGNAL_WINDOW
  /\ history[3].at - history[1].at >= DUPLICATE_SIGNAL_WINDOW

\* q is a signal that was let through and r a later signal of the same pair,
\* received less than 60 s after it
RepeatOf(r, q) ==
  /\ Signal(req[q]) /\ ~req[q].dup
  /\ Signal(req[r])
  /\ req[q].seq < req[r].seq
  /\ req[r].data.symbol = req[q].data.symbol
  /\ req[r].data.action = req[q].data.action
  /\ req[r].at - req[q].at < DUPLICATE_SIGNAL_WINDOW

\* the pipeline of the signal has ended without an accepted order
EndedWithoutOrder(s) ==
  /\ Ended(s)
  /\ s.accepted = 0
  /\ Len(s.outcomes) = 1
  /\ s.outcomes[1].status \in {"failed", "skipped"}

\* C33: the pair of a signal is recorded in the step that lets it through:
\* from that step on its entry is in the tracker, and an identical signal
\* received less than 60 s later is suppressed as a duplicate, whether the
\* pipeline of the first is still running, placed its order, failed or was
\* skipped.
C33_RecordedWhenLetThrough ==
  \A q \in Reqs :
    /\ (Signal(req[q]) /\ ~req[q].dup) =>
         MapGet(recentSignals, SignalKey(req[q].data.symbol, req[q].data.action))
           >= req[q].at
    /\ \A r \in Reqs : RepeatOf(r, q) => SuppressedAsDuplicate(req[r])

\* the first signal found no valid token and was logged as failed; the
\* identical signal that came while it ran has been suppressed as a duplicate
C33_Witness ==
  \E q, r \in Reqs :
    /\ RepeatOf(r, q)
    /\ EndedWithoutOrder(req[q])
    /\ req[q].ensured = <<FALSE>>
    /\ Failed(req[q], "no valid access token")
    /\ Ended(req[r])
    /\ SuppressedAsDuplicate(req[r])

\* C34: a signal whose order the brokerage has accepted is logged with
\* status success: its outcome is never failed or skipped, and neither is
\* any log row written for it.
C34_AcceptedLoggedSuccess ==
  \A r \in Reqs :
    req[r].accepted > 0 =>
      /\ \A i \in 1..Len(req[r].outcomes) : req[r].outcomes[i].status = "success"
      /\ \A i \in 1..Len(req[r].logRows) : req[r].logRows[i].status = "success"

\* C35: the order call is made only for a signal whose action is BUY or
\* SELL and whose quantity is a positive number.
C35_OnlyConformingOrdered ==
  \A r \in Reqs :
    req[r].placed # << >> =>
      /\ req[r].data.action \in {"BUY", "SELL"}
      /\ req[r].data.quantity > 0

\* no handler, job or callback is waiting for a call
Quiescent ==
  /\ \A r \in Reqs : req[r].pc \in {"idle", "done"}
  /\ cron.pc = "idle"
  /\ login.pc \in {"idle", "done"}

\* every refresh, exchange and storage call made so far has succeeded
AllCallsSucceeded ==
  /\ \A n \in 1..arrivals : \E r \in Reqs : req[r].seq = n
  /\ \A r \in Reqs : req[r].failedCalls = {} /\ req[r].refreshResult \in {"", "tokens"}
  /\ ~cron.refreshFailed /\ ~cron.saveFailed
  /\ login.pc = "done" => login.saved

\* C36: whatever the interleaving of the refreshes of concurrent requests,
\* of the token job and of an OAuth callback, once all of them have completed
\* (every call having succeeded) the auth_tokens table holds exactly one row,
\* and its pair is the pair in memory.
C36_OnePairAuthoritative ==
  (Quiescent /\ AllCallsSucceeded /\ issued > 0) =>
    /\ Len(authTokens) = 1
    /\ authTokens[1].access_token = upstoxAccessToken
    /\ authTokens[1].refresh_token = upstoxRefreshToken

\* the activations waiting for the answer to a refresh request
RefreshesInFlight ==
  Cardinality({r \in Reqs : req[r].pc = "refresh"})
    + (IF cron.pc = "refresh" THEN 1 ELSE 0)

\* C37: at most one refresh request is in flight at any time.
C37_OneRefreshInFlight == RefreshesInFlight <= 1

\* the callback has failed: it came without a code, or its exchange was
\* answered with an error or without an access token
LoginFailed(l) ==
  \/ l.pc # "idle" /\ ~l.code
  \/ l.result \in {"no_access_token", "error"}

\* C38: an OAuth callback that fails ends in the step in which it fails,
\* with a single 400 or 500 answer and no redirect, and that step leaves the
\* access token, the refresh token and the expiry in memory and the rows of
\* auth_tokens as they were; a failed callback makes no storage call.
C38_FailedCallbackChangesNothing ==
  [][/\ (login' # login /\ LoginFailed(login')) =>
          UNCHANGED <<upstoxAccessToken, upstoxRefreshToken, tokenExpiryTime,
                      authTokens>>
     /\ LoginFailed(login') =>
          /\ login'.pc = "done"
          /\ login'.responses \in {<<400>>, <<500>>}
          /\ login'.save = NoSave
          /\ ~login'.saved]_vars

\* an exchange answered without an access token: the callback has answered
\* 500 and the expired credential of the start is still the one in memory
\* and in the table
C38_Witness ==
  /\ login.pc = "done"
  /\ login.code
  /\ login.result = "no_access_token"
  /\ login.responses = <<500>>
  /\ upstoxAccessToken = AccessTok(0)
  /\ upstoxRefreshToken = RefreshTok(0)
  /\ tokenExpiryTime = StartTime + TOKEN_LIFETIME
  /\ Len(authTokens) = 1 /\ authTokens[1].access_token = AccessTok(0)

====
